---- MODULE Spec2Model ----
(***************************************************************************)
(* Contract extraction engine (backend/contract_extractor.py).             *)
(*                                                                         *)
(* Text is modelled character by character: a Python str is a sequence of  *)
(* one-character strings, so that stripping, normalisation, searching and  *)
(* slicing are computed the way the code computes them.                    *)
(***************************************************************************)
EXTENDS Integers, Sequences, FiniteSets, TLC

\* ------------------------------------------------------------------------
\* Python values
\* ------------------------------------------------------------------------
\* None where the code has Optional[str]: a one-element sequence holding a
\* token that is not a character, so it differs from every text.
None == <<"<None>">>

\* None where the code has Optional[int]; the integers the code produces
\* (enumerate(doc, start=1), int() of a \d+ match) are never negative.
NoPage == 0 - 1

\* Python truthiness of an Optional[str]: neither None nor "".
Truthy(s) == s # None /\ s # <<>>

Min(a, b) == IF a <= b THEN a ELSE b

Max(a, b) == IF a >= b THEN a ELSE b

\* ------------------------------------------------------------------------
\* Characters
\* ------------------------------------------------------------------------
UpperSeq == <<"A","B","C","D","E","F","G","H","I","J","K","L","M",
              "N","O","P","Q","R","S","T","U","V","W","X","Y","Z">>

LowerSeq == <<"a","b","c","d","e","f","g","h","i","j","k","l","m",
              "n","o","p","q","r","s","t","u","v","w","x","y","z">>

DigitSeq == <<"0","1","2","3","4","5","6","7","8","9">>

Uppers == {UpperSeq[i] : i \in 1..26}

Lowers == {LowerSeq[i] : i \in 1..26}

Digits == {DigitSeq[i] : i \in 1..10}

\* \s of the re module, restricted to the whitespace the model's texts use.
IsSpace(c) == c \in {" ", "\n", "\t"}

\* \w of the re module.
IsWord(c) == c \in Uppers \/ c \in Lowers \/ c \in Digits \/ c = "_"

IsAlpha(c) == c \in Uppers \/ c \in Lowers

\* str.lower() on one character.
LowerChar(c) ==
    IF c \in Uppers THEN LowerSeq[CHOOSE i \in 1..26 : UpperSeq[i] = c] ELSE c

\* int() of one decimal digit.
DigitVal(c) == (CHOOSE i \in 1..10 : DigitSeq[i] = c) - 1

\* ------------------------------------------------------------------------
\* str methods
\* ------------------------------------------------------------------------
\* str.lower()
Lower(s) == [i \in 1..Len(s) |-> LowerChar(s[i])]

\* s[a:b] for 0 <= a and 0 <= b (Python clips both ends to the text).
Slice(s, a, b) ==
    LET hi == Min(b, Len(s)) IN
    IF a >= hi THEN <<>> ELSE SubSeq(s, a + 1, hi)

RECURSIVE LStrip(_)
\* str.lstrip()
LStrip(s) ==
    IF s = <<>> THEN s
    ELSE IF IsSpace(Head(s)) THEN LStrip(Tail(s)) ELSE s

RECURSIVE RStrip(_)
\* str.rstrip()
RStrip(s) ==
    IF s = <<>> THEN s
    ELSE IF IsSpace(s[Len(s)]) THEN RStrip(SubSeq(s, 1, Len(s) - 1)) ELSE s

\* str.strip()
Strip(s) == RStrip(LStrip(s))

\* s.startswith(p) at offset i (0-based): s[i:i+len(p)] == p
MatchAt(s, p, i) ==
    /\ i + Len(p) <= Len(s)
    /\ \A k \in 1..Len(p) : s[i + k] = p[k]

\* str.find(): lowest 0-based index of needle in hay, -1 when absent.
Find(hay, needle) ==
    LET hits == {i \in 0..Len(hay) : MatchAt(hay, needle, i)} IN
    IF hits = {} THEN 0 - 1
    ELSE CHOOSE i \in hits : \A j \in hits : i <= j

\* needle in hay
Contains(hay, needle) == Find(hay, needle) # 0 - 1

RECURSIVE SplitWs(_)
\* str.split(): the maximal runs of non-whitespace, in order.
SplitWs(s) ==
    LET t == LStrip(s) IN
    IF t = <<>> THEN <<>>
    ELSE LET stops == {i \in 1..Len(t) : IsSpace(t[i])}
             n == IF stops = {} THEN Len(t) + 1
                  ELSE CHOOSE i \in stops : \A j \in stops : i <= j
         IN <<SubSeq(t, 1, n - 1)>> \o SplitWs(SubSeq(t, n, Len(t)))

RECURSIVE JoinWith(_, _)
\* sep.join(parts)
JoinWith(sep, parts) ==
    IF parts = <<>> THEN <<>>
    ELSE IF Len(parts) = 1 THEN parts[1]
    ELSE parts[1] \o sep \o JoinWith(sep, Tail(parts))

\* ------------------------------------------------------------------------
\* re.sub helpers
\* ------------------------------------------------------------------------
RECURSIVE CollapseWs(_)
\* re.sub(r"\s+", " ", s): every maximal whitespace run becomes one space.
CollapseWs(s) ==
    IF s = <<>> THEN s
    ELSE IF IsSpace(Head(s))
         THEN <<" ">> \o CollapseWs(LStrip(s))
         ELSE <<Head(s)>> \o CollapseWs(Tail(s))

\* re.sub(r"[^\w\s]", " ", s): every other character becomes a space.
PunctToSpace(s) ==
    [i \in 1..Len(s) |-> IF IsWord(s[i]) \/ IsSpace(s[i]) THEN s[i] ELSE " "]

\* ------------------------------------------------------------------------
\* Attribution
\* ------------------------------------------------------------------------
\* _normalize_for_matching
NormalizeForMatching(text) == Lower(Strip(CollapseWs(PunctToSpace(text))))

\* The default of the keyword argument radius.
Radius == 180

RECURSIVE PrefixIdx(_, _, _, _)
\* The loop of _slice_snippet_around_match
\* over the leading-token prefixes: lengths from length down to stop + 1,
\* skipping prefixes shorter than 4 characters; the index of the first prefix
\* found in normalized_text, -1 when none is.
PrefixIdx(normalized_text, tokens, length, stop) ==
    IF length <= stop THEN 0 - 1
    ELSE LET snippet == JoinWith(<<" ">>, SubSeq(tokens, 1, length)) IN
         IF Len(snippet) < 4
         THEN PrefixIdx(normalized_text, tokens, length - 1, stop)
         ELSE IF Find(normalized_text, snippet) # 0 - 1
              THEN Find(normalized_text, snippet)
              ELSE PrefixIdx(normalized_text, tokens, length - 1, stop)

\* The mutant of SliceFrom: the slice is taken from the normalized text, the
\* text the offsets were computed on.
SliceFromNormalized(text, normalized_text, start, end) ==
    Strip(Slice(normalized_text, start, end))

\* text[start:end].strip() of the normalized path (line 395); the offsets
\* were computed on normalized_text, the slice is taken from the original.
SliceFrom(text, normalized_text, start, end) ==
    Strip(Slice(text, start, end))

\* _slice_snippet_around_match(text, value, radius=...)
SliceSnippetAroundMatch(text, value, radius) ==
    IF ~Truthy(text) \/ ~Truthy(value) THEN None
    ELSE
      LET pattern == Slice(value, 0, 500)
          \* re.search(re.escape(...), text, IGNORECASE | DOTALL)
          mstart == Find(Lower(text), Lower(pattern))
      IN
      IF mstart = 0 - 1
      THEN
        LET normalized_text == NormalizeForMatching(text)
            normalized_value == NormalizeForMatching(value)
        IN
        IF normalized_value = <<>> THEN None
        ELSE
          LET idx0 == Find(normalized_text, normalized_value)
              tokens == SplitWs(normalized_value)
              idx == IF idx0 # 0 - 1 THEN idx0
                     ELSE PrefixIdx(normalized_text, tokens,
                                    Min(Len(tokens), 6), 1)
          IN
          IF idx = 0 - 1 THEN None
          ELSE
            LET start == Max(0, idx - radius)
                end == Min(Len(normalized_text),
                           idx + Len(normalized_value) + radius)
            IN SliceFrom(text, normalized_text, start, end)
      ELSE
        LET start == Max(0, mstart - radius)
            end == Min(Len(text), mstart + Len(pattern) + radius)
        IN Strip(Slice(text, start, end))

\* next((p for p in pages if p.page_number == page_number), None): the
\* index of the first such page, 0 when there is none.
PageIndex(pages, page_number) ==
    LET is == {i \in 1..Len(pages) : pages[i].page_number = page_number} IN
    IF is = {} THEN 0 ELSE CHOOSE i \in is : \A j \in is : i <= j

\* _build_reference_snippet as a function of the radius its calls of
\* _slice_snippet_around_match use.
BuildReferenceSnippetR(pages, value, page_number, fallback_text, radius) ==
    IF ~Truthy(value) THEN None
    ELSE
      LET pi == IF page_number = NoPage THEN 0
                ELSE PageIndex(pages, page_number)
          onPage == IF pi = 0 THEN None
                    ELSE SliceSnippetAroundMatch(pages[pi].text, value, radius)
          onFallback == IF Truthy(fallback_text)
                        THEN SliceSnippetAroundMatch(fallback_text, value, radius)
                        ELSE None
      IN
      IF Truthy(onPage) THEN onPage
      ELSE IF Truthy(onFallback) THEN onFallback
      ELSE None

\* _build_reference_snippet
BuildReferenceSnippet(pages, value, page_number, fallback_text) ==
    BuildReferenceSnippetR(pages, value, page_number, fallback_text, Radius)

\* The mutant of FirstPageWith: the last page whose normalized text holds
\* part.
LastPageWith(pages, normalized_pages, part) ==
    LET Highest(is) == IF is = {} THEN NoPage
                       ELSE pages[CHOOSE i \in is : \A j \in is : i >= j]
                                .page_number
    IN Highest({i \in 1..Len(pages) : Contains(normalized_pages[i], part)})

\* The first page whose normalized text holds part, NoPage when none does.
FirstPageWith(pages, normalized_pages, part) ==
    LET Lowest(is) == IF is = {} THEN NoPage
                      ELSE pages[CHOOSE i \in is : \A j \in is : i <= j]
                               .page_number
    IN Lowest({i \in 1..Len(pages) : Contains(normalized_pages[i], part)})

RECURSIVE PrefixPage(_, _, _, _)
\* for length in range(min(len(tokens), 6), 2, -1): ... from length on
PrefixPage(pages, normalized_pages, tokens, length) ==
    IF length <= 2 THEN NoPage
    ELSE
      LET Found(page_number) ==
              IF page_number # NoPage THEN page_number
              ELSE PrefixPage(pages, normalized_pages, tokens, length - 1)
          Try(snippet) ==
              IF Len(snippet) < 4
              THEN PrefixPage(pages, normalized_pages, tokens, length - 1)
              ELSE Found(FirstPageWith(pages, normalized_pages, snippet))
      IN Try(JoinWith(<<" ">>, SubSeq(tokens, 1, length)))

\* _find_page_number_for_value
FindPageNumberForValue(pages, value) ==
    IF ~Truthy(value) THEN NoPage
    ELSE
      LET Prefixes(normalized_pages, tokens) ==
              PrefixPage(pages, normalized_pages, tokens,
                         Min(Len(tokens), 6))
          Whole(normalized_value, normalized_pages, page_number) ==
              IF page_number # NoPage THEN page_number
              ELSE Prefixes(normalized_pages, SplitWs(normalized_value))
          Search(normalized_value, normalized_pages) ==
              IF normalized_value = <<>> THEN NoPage
              ELSE Whole(normalized_value, normalized_pages,
                         FirstPageWith(pages, normalized_pages,
                                       normalized_value))
      IN Search(NormalizeForMatching(value),
                [i \in 1..Len(pages) |-> NormalizeForMatching(pages[i].text)])
\* ------------------------------------------------------------------------
\* Model-output sanitizer
\* ------------------------------------------------------------------------
\* The backquote character, which a TLA+ string cannot hold.
Backquote == "BACKQUOTE"

Fence == <<Backquote,Backquote,Backquote>>

Delimiter == <<"|","|","|">>

NotFound == <<"N","o","t"," ","F","o","u","n","d">>

NoRenewalTermsSpecified == <<"N","o"," ","r","e","n","e","w","a","l"," ","t","e","r","m","s"," ","s","p","e","c","i","f","i","e","d">>

NotSpecified == <<"N","o","t"," ","s","p","e","c","i","f","i","e","d">>

RECURSIVE DropWhileWord(_)
DropWhileWord(s) ==
    IF s = <<>> THEN s
    ELSE IF IsWord(Head(s)) THEN DropWhileWord(Tail(s)) ELSE s

\* re.sub(r"^FENCE(?:\w+)?\s*|\s*FENCE$", "", s), FENCE being the three
\* backquotes of a code fence
StripFences(s) ==
    LET a == IF MatchAt(s, Fence, 0)
             THEN LStrip(DropWhileWord(SubSeq(s, 4, Len(s))))
             ELSE s
    IN IF Len(a) >= 3 /\ MatchAt(a, Fence, Len(a) - 3)
       THEN RStrip(SubSeq(a, 1, Len(a) - 3))
       ELSE a

RECURSIVE RemoveEmphasis(_)
\* re.sub(r"[*_BACKQUOTE]+", "", s)
RemoveEmphasis(s) ==
    IF s = <<>> THEN s
    ELSE IF Head(s) \in {"*", "_", Backquote}
         THEN RemoveEmphasis(Tail(s))
         ELSE <<Head(s)>> \o RemoveEmphasis(Tail(s))

RECURSIVE DropWhileBullet(_)
DropWhileBullet(s) ==
    IF s = <<>> THEN s
    ELSE IF Head(s) \in {"-", "*"} THEN DropWhileBullet(Tail(s)) ELSE s

\* re.sub(r"^\s*(?:[-*\u2022]+\s*)?", "", s)
StripBullet(s) ==
    LET a == LStrip(s) IN
    IF a # <<>> /\ Head(a) \in {"-", "*"} THEN LStrip(DropWhileBullet(a)) ELSE a

\* The alternation of the label pattern, in its order.
LabelWords == << <<"s","u","m","m","a","r","y">>, <<"o","v","e","r","v","i","e","w">>, <<"a","n","s","w","e","r">>, <<"r","e","s","u","l","t">>,
                 <<"e","x","t","r","a","c","t","i","o","n">>, <<"n","o","t","i","c","e"," ","p","e","r","i","o","d">>,
                 <<"t","e","r","m","i","n","a","t","i","o","n"," ","n","o","t","i","c","e"," ","p","e","r","i","o","d">>, <<"r","e","n","e","w","a","l"," ","t","e","r","m","s">> >>

\* The number of leading characters of s that satisfy the class.
RECURSIVE SpaceRun(_)
SpaceRun(s) ==
    IF s = <<>> \/ ~IsSpace(Head(s)) THEN 0 ELSE 1 + SpaceRun(Tail(s))

RECURSIVE LabelRun(_)
\* [A-Za-z ]
LabelRun(s) ==
    IF s = <<>> \/ ~(IsAlpha(Head(s)) \/ Head(s) = " ") THEN 0
    ELSE 1 + LabelRun(Tail(s))

From(s, i) == SubSeq(s, i + 1, Len(s))

\* The first of the alternatives LabelWords that matches low at offset p,
\* 0 when none does.
LabelAt(low, p) ==
    LET Lowest(ks) == IF ks = {} THEN 0
                      ELSE CHOOSE i \in ks : \A j \in ks : i <= j
    IN Lowest({k \in 1..Len(LabelWords) : MatchAt(low, LabelWords[k], p)})

\* re.sub(r"^\s*(?:[A-Za-z ]{3,40})\s*(?:summary|...|renewal terms)\s*:?-?\s*",
\*        "", s, flags=re.IGNORECASE)
\* A match is <<a, n, w>>: a leading whitespace characters, n label
\* characters, w whitespace characters, then one of LabelWords. Every
\* quantifier is greedy, so the match taken is the greatest in that order.
StripLabel(s) ==
    LET Before(x, y) == \/ x[1] > y[1]
                        \/ x[1] = y[1] /\ x[2] > y[2]
                        \/ x[1] = y[1] /\ x[2] = y[2] /\ x[3] >= y[3]
        Dash(r) == LStrip(IF r # <<>> /\ Head(r) = "-" THEN Tail(r) ELSE r)
        Colon(r) == Dash(IF r # <<>> /\ Head(r) = ":" THEN Tail(r) ELSE r)
        After(low, p) ==
            Colon(LStrip(From(s, p + Len(LabelWords[LabelAt(low, p)]))))
        Taken(low, cands) ==
            IF cands = {} THEN s
            ELSE After(low, LET m == CHOOSE x \in cands :
                                        \A y \in cands : Before(x, y)
                            IN m[1] + m[2] + m[3])
        Matches(low) ==
            Taken(low, {m \in (0..SpaceRun(s)) \X (3..Min(40, Len(s)))
                                               \X (0..Len(s)) :
                          /\ LabelAt(low, m[1] + m[2] + m[3]) # 0
                          /\ m[2] <= LabelRun(From(s, m[1]))
                          /\ m[3] <= SpaceRun(From(s, m[1] + m[2]))})
    IN Matches(Lower(s))

\* t.split("\n", 1)[0].strip() when "\n" in t
FirstLine(t) ==
    IF Contains(t, <<"\n">>) THEN Strip(SubSeq(t, 1, Find(t, <<"\n">>))) ELSE t

\* m = re.match(r"(.+?[.!?])(?:\s|$)", t); t = m.group(1).strip() if m
FirstSentence(t) ==
    LET ends == {j \in 2..Len(t) :
                   /\ \A i \in 1..(j - 1) : t[i] # "\n"
                   /\ t[j] \in {".", "!", "?"}
                   /\ (j = Len(t) \/ IsSpace(t[j + 1]))}
    IN IF ends = {} THEN t
       ELSE Strip(SubSeq(t, 1, CHOOSE j \in ends : \A k \in ends : j <= k))

DateLabels == << <<"e","f","f","e","c","t","i","v","e">>, <<"s","t","a","r","t">>, <<"e","n","d">>, <<"t","e","r","m","i","n","a","t","i","o","n">> >>

\* re.sub(r"^(?:effective|start|end|termination)\s+date\s*[:\-]\s*", "", t,
\*        flags=re.IGNORECASE)
StripDateLabel(t) ==
    LET low == Lower(t)
        ks == {k \in 1..Len(DateLabels) : MatchAt(low, DateLabels[k], 0)}
    IN
    IF ks = {} THEN t
    ELSE
      LET k == CHOOSE i \in ks : \A j \in ks : i <= j
          a == From(t, Len(DateLabels[k]))
          b == LStrip(a)
          c == IF MatchAt(Lower(b), <<"d","a","t","e">>, 0) THEN LStrip(From(b, 4)) ELSE b
      IN
      IF /\ a # <<>> /\ IsSpace(Head(a))
         /\ MatchAt(Lower(b), <<"d","a","t","e">>, 0)
         /\ c # <<>> /\ Head(c) \in {":", "-"}
      THEN LStrip(Tail(c))
      ELSE t

\* _sanitize_llm_answer
SanitizeLlmAnswer(answer, field) ==
    IF ~Truthy(answer) THEN None
    ELSE
      LET OrNone(t) == IF t = <<>> THEN None ELSE t
          Dates(t) == IF field \in {"start_date", "end_date"}
                      THEN StripDateLabel(t) ELSE t
      IN OrNone(Dates(FirstSentence(FirstLine(Strip(CollapseWs(StripLabel(
             StripBullet(RemoveEmphasis(StripFences(Strip(answer)))))))))))

RECURSIVE RStripDots(_)
\* str.rstrip('.')
RStripDots(s) ==
    IF s = <<>> THEN s
    ELSE IF s[Len(s)] = "." THEN RStripDots(SubSeq(s, 1, Len(s) - 1)) ELSE s

\* allowed_exact
AllowedExact == { <<"n","o","t"," ","s","p","e","c","i","f","i","e","d">>, <<"n","o"," ","r","e","n","e","w","a","l"," ","t","e","r","m","s"," ","s","p","e","c","i","f","i","e","d">>,
                  <<"n","o","t"," ","f","o","u","n","d">> }

\* generic_patterns: each is anchored at both ends and has no unbounded
\* repetition, so each is the finite set of texts it matches.
GenericAnswers ==
    LET subj == { <<"r","e","n","e","w","a","l">>, <<"t","e","r","m","i","n","a","t","i","o","n"," ","n","o","t","i","c","e"," ","p","e","r","i","o","d">>,
                  <<"n","o","t","i","c","e"," ","p","e","r","i","o","d">>, <<"e","n","d"," ","d","a","t","e">>, <<"s","t","a","r","t"," ","d","a","t","e">> }
        kind == { <<"c","o","n","d","i","t","i","o","n","s">>, <<"t","e","r","m","s">>, <<"d","e","t","a","i","l","s">>, <<"i","n","f","o","r","m","a","t","i","o","n">> }
        verb == { <<"p","r","o","v","i","d","e","d">>, <<"s","p","e","c","i","f","i","e","d">>, <<"m","e","n","t","i","o","n","e","d">> }
        opt(x) == {<<>>, x}
        art == opt(<<"t","h","e"," ">>)
    IN
    {c \o s \o p \o <<" ">> \o k \o <<" ">> \o a \o v :
        c \in opt(<<"c","o","n","t","r","a","c","t"," ">>), s \in subj, p \in opt(<<"s">>), k \in kind,
        a \in opt(<<"a","r","e"," ">>), v \in verb}
    \cup {<<"a","s"," ","p","e","r"," ">> \o a \o <<"c","o","n","t","r","a","c","t">> : a \in art}
    \cup {<<"p","e","r"," ">> \o a \o <<"a","g","r","e","e","m","e","n","t">> : a \in art}
    \cup {<<"r","e","f","e","r"," ","t","o"," ">> \o a \o n : a \in art,
                                    n \in { <<"c","o","n","t","r","a","c","t">>, <<"a","g","r","e","e","m","e","n","t">> }}

TerminationVocabulary ==
    { <<"d","a","y">>, <<"d","a","y","s">>, <<"w","e","e","k">>, <<"w","e","e","k","s">>, <<"m","o","n","t","h">>, <<"m","o","n","t","h","s">>,
      <<"y","e","a","r">>, <<"y","e","a","r","s">>, <<"i","m","m","e","d","i","a","t","e">>, <<"u","p","o","n">>, <<"p","r","i","o","r">>, <<"w","r","i","t","t","e","n">>,
      <<"n","o","t","i","c","e">>, <<"b","u","s","i","n","e","s","s"," ","d","a","y">> }

RenewalVocabulary ==
    { <<"r","e","n","e","w">>, <<"r","e","n","e","w","a","l">>, <<"e","x","t","e","n","d">>, <<"a","u","t","o">>, <<"a","u","t","o","m","a","t","i","c">>,
      <<"m","u","t","u","a","l">>, <<"u","n","l","e","s","s">>, <<"n","o","t","i","c","e">>, <<"p","e","r","i","o","d">>, <<"t","e","r","m">>, <<"y","e","a","r">>,
      <<"m","o","n","t","h">>, <<"d","a","y","s">> }

\* _is_uninformative_llm_answer
IsUninformativeLlmAnswer(text, field) ==
    IF ~Truthy(text) THEN TRUE
    ELSE
      LET t == RStripDots(Lower(Strip(text))) IN
      IF t \in AllowedExact THEN FALSE
      ELSE IF t \in GenericAnswers THEN TRUE
      ELSE IF /\ field = "termination_notice_period"
              /\ ~\E w \in TerminationVocabulary : Contains(t, w)
           THEN TRUE
      ELSE IF /\ field = "renewal_terms"
              /\ ~\E w \in RenewalVocabulary : Contains(t, w)
           THEN TRUE
      ELSE FALSE

RECURSIVE DigitRun(_)
DigitRun(s) ==
    IF s = <<>> \/ Head(s) \notin Digits THEN 0 ELSE 1 + DigitRun(Tail(s))

RECURSIVE EqualsRun(_)
EqualsRun(s) ==
    IF s = <<>> \/ Head(s) # "=" THEN 0 ELSE 1 + EqualsRun(Tail(s))

RECURSIVE ToInt(_)
\* int() of a run of decimal digits
ToInt(ds) ==
    IF ds = <<>> THEN 0
    ELSE 10 * ToInt(SubSeq(ds, 1, Len(ds) - 1)) + DigitVal(ds[Len(ds)])

\* Where r"page\s*=*\s*(\d+)" matches at offset i of text (ignoring case):
\* the offset of group 1, -1 when it does not match there.
PageGroupAt(text, i) ==
    IF ~MatchAt(Lower(text), <<"p","a","g","e">>, i) THEN 0 - 1
    ELSE
      LET a == i + 4
          b == a + SpaceRun(From(text, a))
          c == b + EqualsRun(From(text, b))
          d == c + SpaceRun(From(text, c))
      IN IF DigitRun(From(text, d)) > 0 THEN d ELSE 0 - 1

\* _extract_page_number_from_text. The second and third searches of the
\* code (r"page\s+(\d+)", r"\bPAGE=(\d+)\b") match only texts the first
\* search matches, so they are never reached with a text that matches.
ExtractPageNumberFromText(text) ==
    IF ~Truthy(text) THEN NoPage
    ELSE
      LET at == {i \in 0..Len(text) : PageGroupAt(text, i) # 0 - 1} IN
      IF at = {} THEN NoPage
      ELSE
        LET i == CHOOSE x \in at : \A y \in at : x <= y
            d == PageGroupAt(text, i)
        IN ToInt(SubSeq(text, d + 1, d + DigitRun(From(text, d))))

\* The mutant of PageNumberOf: the whole output is searched before the page
\* marker.
PageNumberOfOutputFirst(pages, output, page_part, answer_value) ==
    LET Third(page_number) ==
            IF page_number # NoPage THEN page_number
            ELSE FindPageNumberForValue(pages, answer_value)
        Second(page_number) ==
            IF page_number # NoPage THEN page_number
            ELSE Third(ExtractPageNumberFromText(page_part))
    IN Second(ExtractPageNumberFromText(output))

\* The page of _process_llm_output: the page marker, else the whole output,
\* else the search of the pages.
PageNumberOf(pages, output, page_part, answer_value) ==
    LET Third(page_number) ==
            IF page_number # NoPage THEN page_number
            ELSE FindPageNumberForValue(pages, answer_value)
        Second(page_number) ==
            IF page_number # NoPage THEN page_number
            ELSE Third(ExtractPageNumberFromText(output))
    IN Second(ExtractPageNumberFromText(page_part))

\* _process_llm_output: <<answer_value, page_number>>
ProcessLlmOutput(pages, raw_output, field) ==
    IF ~Truthy(raw_output) THEN <<None, NoPage>>
    ELSE
      LET Attributed(output, page_part, answer_value) ==
              IF ~Truthy(answer_value) THEN <<None, NoPage>>
              ELSE <<answer_value,
                     PageNumberOf(pages, output, page_part, answer_value)>>
          Split(output, cut) ==
              Attributed(output,
                         IF cut = 0 - 1 THEN <<>>
                         ELSE Strip(From(output, cut + 3)),
                         SanitizeLlmAnswer(
                             IF cut = 0 - 1 THEN output
                             ELSE Strip(SubSeq(output, 1, cut)), field))
          Output(output) == Split(output, Find(output, Delimiter))
      IN Output(StripFences(Strip(raw_output)))

\* ------------------------------------------------------------------------
\* Segmenter
\* ------------------------------------------------------------------------
\* WindowConfig() as _extract_contract_basics builds it (the sentence counts
\* are read nowhere).
DefaultMaxCharsDense == 1000

DefaultMaxCharsSparse == 6000

DefaultWindowConfig ==
    [max_chars_dense |-> DefaultMaxCharsDense,
     max_chars_sparse |-> DefaultMaxCharsSparse]

RECURSIVE PreprocessRuns(_)
\* re.sub(r"\s*\n\s*", "\n", text): a maximal whitespace run that holds a
\* newline becomes one newline, every other character stays.
PreprocessRuns(s) ==
    IF s = <<>> THEN s
    ELSE IF IsSpace(Head(s))
         THEN LET n == SpaceRun(s) IN
              IF Contains(SubSeq(s, 1, n), <<"\n">>)
              THEN <<"\n">> \o PreprocessRuns(From(s, n))
              ELSE SubSeq(s, 1, n) \o PreprocessRuns(From(s, n))
         ELSE <<Head(s)>> \o PreprocessRuns(Tail(s))

\* _preprocess_contract
PreprocessContract(text) == Strip(PreprocessRuns(text))

RECURSIVE SplitLines(_)
\* text.splitlines(keepends=True)
SplitLines(s) ==
    IF s = <<>> THEN <<>>
    ELSE LET n == Find(s, <<"\n">>) IN
         IF n = 0 - 1 THEN <<s>>
         ELSE <<SubSeq(s, 1, n + 1)>> \o SplitLines(From(s, n + 1))

HeadingWords == { <<"a","r","t","i","c","l","e">>, <<"s","e","c","t","i","o","n">>, <<"c","l","a","u","s","e">> }

RECURSIVE SectionNumberRun(_)
\* The length of the longest match of (?:\.\d+)* at the start of s.
SectionNumberRun(s) ==
    IF Len(s) >= 2 /\ s[1] = "." /\ s[2] \in Digits
    THEN LET n == 1 + DigitRun(Tail(s)) IN n + SectionNumberRun(From(s, n))
    ELSE 0

\* HEADING_RE.match(line), HEADING_RE being
\* r"^\s*(?:\d+(?:\.\d+)*|Article|Section|Clause)\s+[A-Z][^\n]*$" with
\* IGNORECASE | MULTILINE; a line holds no newline but its last character.
IsHeading(line) ==
    LET a == LStrip(line)
        d == DigitRun(a)
        num == IF d = 0 THEN 0 ELSE d + SectionNumberRun(From(a, d))
        ws == {w \in HeadingWords : MatchAt(Lower(a), w, 0)}
        n == IF num > 0 THEN num
             ELSE IF ws # {} THEN Len(CHOOSE w \in ws : TRUE)
             ELSE 0
        rest == From(a, n)
        label == LStrip(rest)
    IN /\ n > 0
       /\ rest # <<>> /\ IsSpace(Head(rest))
       /\ label # <<>> /\ IsAlpha(Head(label))

RECURSIVE BuildSegments(_, _, _)
RECURSIVE BuildSegmentsOfBareHeadings(_, _, _)
\* The mutant of BuildSegments: a heading line does not end the paragraph,
\* the lines of the page make one segment.
BuildSegmentsAcrossHeadings(lines, current_heading, buffer) ==
    LET para == Strip(buffer \o JoinWith(<<>>, lines)) IN
    IF para # <<>> THEN << [heading |-> current_heading, para |-> para] >>
    ELSE <<>>

\* The mutant of BuildSegments: a heading makes a segment also when no
\* paragraph follows it.
BuildSegmentsOfBareHeadings(lines, current_heading, buffer) ==
    LET para == Strip(buffer)
        flushed == IF para # <<>> \/ current_heading # <<>>
                   THEN << [heading |-> current_heading, para |-> para] >>
                   ELSE <<>>
    IN
    IF lines = <<>> THEN flushed
    ELSE IF IsHeading(Head(lines))
         THEN flushed \o BuildSegmentsOfBareHeadings(Tail(lines),
                                                     Strip(Head(lines)), <<>>)
         ELSE BuildSegmentsOfBareHeadings(Tail(lines), current_heading,
                                          buffer \o Head(lines))

\* Step 1 of _generate_context_windows_for_text: the (heading, paragraph)
\* pairs, from the lines still to read, current_heading and buffer.
BuildSegments(lines, current_heading, buffer) ==
    LET para == Strip(buffer)
        flushed == IF para # <<>>
                   THEN << [heading |-> current_heading, para |-> para] >>
                   ELSE <<>>
    IN
    IF lines = <<>> THEN flushed
    ELSE IF IsHeading(Head(lines))
         THEN flushed \o BuildSegments(Tail(lines), Strip(Head(lines)), <<>>)
         ELSE BuildSegments(Tail(lines), current_heading,
                            buffer \o Head(lines))

RECURSIVE Sentencize(_)
\* [s.text.strip() for s in self.nlp(chunk).sents if s.text.strip()]: the
\* sentencizer ends a sentence after a run of ".", "!" or "?" that is
\* followed by whitespace or by the end of the text.
Sentencize(chunk) ==
    LET t == LStrip(chunk)
        ends == {j \in 1..Len(t) :
                   /\ t[j] \in {".", "!", "?"}
                   /\ (j = Len(t) \/ IsSpace(t[j + 1]))}
    IN
    IF t = <<>> THEN <<>>
    ELSE IF ends = {} THEN <<Strip(t)>>
    ELSE LET j == CHOOSE x \in ends : \A y \in ends : x <= y
         IN <<SubSeq(t, 1, j)>> \o Sentencize(From(t, j))

\* The mutant of Emergency: the sentence is appended whole.
EmergencyWhole(sentence, max_chars_dense) == sentence

\* sentences[idx][: cfg.max_chars_dense]
Emergency(sentence, max_chars_dense) == Slice(sentence, 0, max_chars_dense)

RECURSIVE PackSentences(_, _, _, _)
\* The two nested loops over sentences (idx counts from 1 here): the windows
\* appended from idx on, sub being the group packed so far. Each window is
\* tagged with the statement that appended it.
PackSentences(sentences, idx, sub, max_chars_dense) ==
    LET more == idx <= Len(sentences)
        cand == IF sub # <<>> THEN sub \o <<" ">> \o sentences[idx]
                ELSE sentences[idx]
    IN
    IF more /\ Len(cand) <= max_chars_dense
    THEN PackSentences(sentences, idx + 1, cand, max_chars_dense)
    ELSE IF sub # <<>>
    THEN << [text |-> sub, kind |-> "group"] >>
         \o (IF more THEN PackSentences(sentences, idx, <<>>, max_chars_dense)
             ELSE <<>>)
    ELSE IF more
    THEN << [text |-> Emergency(sentences[idx], max_chars_dense),
             kind |-> "slice"] >>
         \o PackSentences(sentences, idx + 1, <<>>, max_chars_dense)
    ELSE <<>>

\* windows.append(heading)  # keep heading as own window if small
HeadingWindow(heading, cfg) == << [text |-> heading, kind |-> "heading"] >>

\* The body of the loop of step 2 for one (heading, paragraph) pair.
SegmentWindows(seg, cfg) ==
    LET chunk == IF seg.heading # <<>>
                 THEN seg.heading \o <<"\n", "\n">> \o seg.para
                 ELSE seg.para
    IN
    IF Len(chunk) <= cfg.max_chars_sparse
    THEN << [text |-> chunk, kind |-> "chunk"] >>
    ELSE (IF seg.heading # <<>> THEN HeadingWindow(seg.heading, cfg) ELSE <<>>)
         \o PackSentences(Sentencize(seg.para), 1, <<>>, cfg.max_chars_dense)

RECURSIVE FlattenSeq(_)
FlattenSeq(ss) == IF ss = <<>> THEN <<>> ELSE Head(ss) \o FlattenSeq(Tail(ss))

\* _generate_context_windows_for_text, each window with its tag.
TaggedWindowsForText(text, cfg) ==
    LET Windows(segments) ==
            FlattenSeq([i \in 1..Len(segments) |->
                           SegmentWindows(segments[i], cfg)])
    IN Windows(BuildSegments(SplitLines(text), <<>>, <<>>))

\* _generate_context_windows_for_text
GenerateContextWindowsForText(text, cfg) ==
    LET Texts(ws) == [i \in 1..Len(ws) |-> ws[i].text]
    IN Texts(TaggedWindowsForText(text, cfg))

\* _generate_context_windows: the ContextWindow list of the pages.
GenerateContextWindows(pages, cfg) ==
    LET NonBlank(w) == Strip(w.text) # <<>>
        OfPage(page, ws) ==
            SelectSeq([i \in 1..Len(ws) |->
                          [page_number |-> page.page_number, text |-> ws[i]]],
                       NonBlank)
    IN FlattenSeq([i \in 1..Len(pages) |->
                      OfPage(pages[i],
                             GenerateContextWindowsForText(pages[i].text, cfg))])

\* ------------------------------------------------------------------------
\* Data model
\* ------------------------------------------------------------------------
SUPPORTED_KEYS ==
    {"start_date", "end_date", "renewal_terms", "termination_notice_period"}

\* ExtractionSource
REGEX == "Regex"

SYSTEM_FALLBACK == "System Fallback"

INFERENCE == "Inference"

NONE == "None"

ExtractionSource == {REGEX, SYSTEM_FALLBACK, INFERENCE, NONE}

\* ExtractionResult(value, source, page_number=None, reference_snippet=None)
ExtractionResult(value, source, page_number, reference_snippet) ==
    [value |-> value, source |-> source, page_number |-> page_number,
     reference_snippet |-> reference_snippet]

\* PatternConfig. A regex of the configuration is one of
\*   valid = FALSE                 a text re cannot compile: compiling it
\*                                 raises `error`, re.error for most such
\*                                 texts, OverflowError for a repetition
\*                                 count of 2**32 or more ("a{4294967296}"),
\*   capture = FALSE               re.escape(lit),
\*   capture = TRUE                re.escape(lit) + "([^.]+)",
\* searched with IGNORECASE | DOTALL.
PatternConfig(patterns, fallback_text, find_all) ==
    [loaded |-> TRUE, patterns |-> patterns, fallback_text |-> fallback_text,
     find_all |-> find_all]

\* self.patterns.get(key) of a key without a loaded configuration
NoConfig ==
    [loaded |-> FALSE, patterns |-> <<>>, fallback_text |-> None,
     find_all |-> FALSE]

\* ------------------------------------------------------------------------
\* Pattern extractor
\* ------------------------------------------------------------------------
\* What a call yields when an exception leaves it: in place of a str, of
\* the dict of _extract_with_patterns, and of the list all_hits.
Raised == <<"<raise>">>
RaisedExtraction ==
    [start_date |-> Raised, end_date |-> Raised, renewal_terms |-> Raised,
     termination_notice_period |-> Raised]
RaisedHits == <<[raised |-> TRUE]>>

RECURSIVE NonDotRun(_)
\* [^.]+ under DOTALL
NonDotRun(s) ==
    IF s = <<>> \/ Head(s) = "." THEN 0 ELSE 1 + NonDotRun(Tail(s))

\* The end of the match of the regex at offset i of text, -1 when it does
\* not match there.
MatchEnd(pattern, text, i) ==
    IF ~MatchAt(Lower(text), Lower(pattern.lit), i) THEN 0 - 1
    ELSE LET e == i + Len(pattern.lit) IN
         IF ~pattern.capture THEN e
         ELSE IF NonDotRun(From(text, e)) > 0
              THEN e + NonDotRun(From(text, e))
              ELSE 0 - 1

\* re.search: the offset of the leftmost match at or after offset `from`,
\* -1 when there is none.
SearchFrom(pattern, text, from) ==
    LET at == {i \in from..Len(text) : MatchEnd(pattern, text, i) # 0 - 1} IN
    IF at = {} THEN 0 - 1 ELSE CHOOSE i \in at : \A j \in at : i <= j

\* "".join(filter(None, match.groups())) if match.groups() else match.group(0),
\* which is also what re.findall yields for a regex of at most one group.
MatchText(pattern, text, i) ==
    IF pattern.capture
    THEN SubSeq(text, i + Len(pattern.lit) + 1, MatchEnd(pattern, text, i))
    ELSE SubSeq(text, i + 1, MatchEnd(pattern, text, i))

RECURSIVE FindAll(_, _, _)
\* re.findall(pattern, text, ...) from offset `from` on, each match stripped
\* and kept when not empty.
FindAll(pattern, text, from) ==
    LET i == SearchFrom(pattern, text, from) IN
    IF i = 0 - 1 THEN <<>>
    ELSE LET match_text == Strip(MatchText(pattern, text, i)) IN
         (IF match_text # <<>> THEN <<match_text>> ELSE <<>>)
         \o FindAll(pattern, text, Max(MatchEnd(pattern, text, i), i + 1))

\* value.replace("\n", " ")
NewlinesToSpaces(s) == [i \in 1..Len(s) |-> IF s[i] = "\n" THEN " " ELSE s[i]]

\* The characters of the model's texts in code point order.
CodePoints == <<"\t", "\n", " ", "!", "*", ",", "-", ".",
                "0","1","2","3","4","5","6","7","8","9", ":", "=", "?",
                "A","B","C","D","E","F","G","H","I","J","K","L","M",
                "N","O","P","Q","R","S","T","U","V","W","X","Y","Z",
                "_", Backquote,
                "a","b","c","d","e","f","g","h","i","j","k","l","m",
                "n","o","p","q","r","s","t","u","v","w","x","y","z", "|">>

\* ord(c)
Ord(c) == CHOOSE i \in 1..Len(CodePoints) : CodePoints[i] = c

RECURSIVE StrLess(_, _)
\* a < b on str
StrLess(a, b) ==
    IF b = <<>> THEN FALSE
    ELSE IF a = <<>> THEN TRUE
    ELSE IF Head(a) # Head(b) THEN Ord(Head(a)) < Ord(Head(b))
    ELSE StrLess(Tail(a), Tail(b))

RECURSIVE Sorted(_)
\* sorted(set)
Sorted(S) ==
    IF S = {} THEN <<>>
    ELSE LET m == CHOOSE x \in S : \A y \in S \ {x} : StrLess(x, y)
         IN <<m>> \o Sorted(S \ {m})

RECURSIVE ApplyFrom(_, _, _, _)
\* The loop of _apply_pattern_config from pattern k on, matches_found being
\* what the earlier patterns collected.
ApplyFrom(text, config, k, matches_found) ==
    IF k > Len(config.patterns)
    THEN IF matches_found # <<>>
         THEN JoinWith(<<" ","|"," ">>,
                       Sorted({matches_found[i] : i \in 1..Len(matches_found)}))
         ELSE None
    ELSE
      LET pattern == config.patterns[k] IN
      IF ~pattern.valid
      THEN IF pattern.error = "re.error"
           THEN \* except re.error: logged, the loop goes on
                ApplyFrom(text, config, k + 1, matches_found)
           ELSE \* no except clause for anything else
                Raised
      ELSE IF config.find_all
      THEN ApplyFrom(text, config, k + 1,
                     matches_found \o FindAll(pattern, text, 0))
      ELSE LET i == SearchFrom(pattern, text, 0) IN
           IF i = 0 - 1 THEN ApplyFrom(text, config, k + 1, matches_found)
           ELSE Strip(NewlinesToSpaces(Strip(MatchText(pattern, text, i))))

\* _apply_pattern_config
ApplyPatternConfig(text, config) == ApplyFrom(text, config, 1, <<>>)

\* _extract_with_patterns: the value of each key, None for a key that is
\* not in the returned dict; RaisedExtraction when _apply_pattern_config
\* raises for one of the keys.
ExtractWithPatterns(text, patterns) ==
    LET Applied(key) ==
            IF ~patterns[key].loaded THEN None
            ELSE ApplyPatternConfig(text, patterns[key])
        Kept(val) == IF Truthy(val) THEN val ELSE None
        Extractions(vals) ==
            IF \E key \in SUPPORTED_KEYS : vals[key] = Raised
            THEN RaisedExtraction
            ELSE [start_date |-> Kept(vals.start_date),
                  end_date |-> Kept(vals.end_date),
                  renewal_terms |-> Kept(vals.renewal_terms),
                  termination_notice_period |->
                      Kept(vals.termination_notice_period)]
    IN Extractions([start_date |-> Applied("start_date"),
                    end_date |-> Applied("end_date"),
                    renewal_terms |-> Applied("renewal_terms"),
                    termination_notice_period |->
                        Applied("termination_notice_period")])

\* ------------------------------------------------------------------------
\* Window merger
\* ------------------------------------------------------------------------
\* The order in which the model walks SUPPORTED_KEYS; the code walks the
\* set (and the dict of hits) in an order nothing downstream depends on,
\* because the merger groups the hits by key.
KeyOrder ==
    <<"start_date", "end_date", "renewal_terms", "termination_notice_period">>

RECURSIVE HitsFrom(_, _, _)
\* The loop of _extract_contract_basics over the windows from window i on:
\* what it extends all_hits with, or RaisedHits when _extract_with_patterns
\* raises for one of these windows.
HitsFrom(windows, patterns, i) ==
    LET Items(w, hits, keys) ==
            [n \in 1..Len(keys) |->
                [key |-> keys[n], val |-> hits[keys[n]],
                 page_num |-> w.page_number, context_text |-> w.text]]
        OfWindow(w, hits) ==
            LET InHits(k) == hits[k] # None
            IN Items(w, hits, SelectSeq(KeyOrder, InHits))
        Extended(hits, rest) ==
            IF hits = RaisedExtraction \/ rest = RaisedHits THEN RaisedHits
            ELSE OfWindow(windows[i], hits) \o rest
    IN IF i > Len(windows) THEN <<>>
       ELSE Extended(ExtractWithPatterns(windows[i].text, patterns),
                     HitsFrom(windows, patterns, i + 1))

\* all_hits after the loop of _extract_contract_basics over the windows.
AllHits(windows, patterns) == HitsFrom(windows, patterns, 1)

\* The mutant of BestEntry: the last of the longest.
BestEntryOfLast(entries) ==
    LET is == {i \in 1..Len(entries) :
                 \A j \in 1..Len(entries) :
                     Len(entries[j].val) <= Len(entries[i].val)}
    IN entries[CHOOSE i \in is : \A j \in is : j <= i]

\* max(entries, key=lambda item: len(item[0])): the first of the longest.
BestEntry(entries) ==
    LET is == {i \in 1..Len(entries) :
                 \A j \in 1..Len(entries) :
                     Len(entries[j].val) <= Len(entries[i].val)}
    IN entries[CHOOSE i \in is : \A j \in is : i <= j]

\* _merge_window_results for one key: the best entry of the grouped hits,
\* or the fallback of a key never matched.
MergedResult(key, hits, pages, patterns) ==
    LET IsKey(h) == h.key = key
        entries == SelectSeq(hits, IsKey)
    IN
    IF entries # <<>>
    THEN LET best == BestEntry(entries) IN
         ExtractionResult(best.val, REGEX, best.page_num,
             BuildReferenceSnippet(pages, best.val, best.page_num,
                                   best.context_text))
    ELSE \* Fallback for any key never matched
         LET cfg == patterns[key]
             fallback_text == IF cfg.loaded THEN cfg.fallback_text
                              ELSE NotFound
         IN ExtractionResult(fallback_text, SYSTEM_FALLBACK, NoPage, None)

\* _merge_window_results
MergeWindowResults(hits, pages, patterns) ==
    [key \in SUPPORTED_KEYS |-> MergedResult(key, hits, pages, patterns)]


\* ------------------------------------------------------------------------
\* Date semantic validator
\* ------------------------------------------------------------------------
\* A regex of the validator is a set of alternatives, an alternative a
\* sequence of elements: \b, \s+ or one of a set of literal texts. Optional
\* parts are written out as alternatives.
WordBoundary == [kind |-> "b", of |-> {}]

Whitespace == [kind |-> "s", of |-> {}]

OneOf(literals) == [kind |-> "lit", of |-> literals]

\* The offsets at which the element can end when it starts at one of `at`.
ElementEnds(element, text, at) ==
    LET IsWordAt(p) == p >= 1 /\ p <= Len(text) /\ IsWord(text[p]) IN
    CASE element.kind = "b" ->
           {p \in at : IsWordAt(p) # IsWordAt(p + 1)}
      [] element.kind = "s" ->
           UNION {(p + 1)..(p + SpaceRun(From(text, p))) : p \in at}
      [] OTHER ->
           UNION {{p + Len(l) : l \in {m \in element.of : MatchAt(text, m, p)}} :
                     p \in at}

RECURSIVE MatchEnds(_, _, _)
\* The offsets at which the sequence of elements can end.
MatchEnds(elements, text, at) ==
    IF elements = <<>> THEN at
    ELSE MatchEnds(Tail(elements), text, ElementEnds(Head(elements), text, at))

\* re.search(regex, text) is not None
Search(regex, text) ==
    \E alternative \in regex : MatchEnds(alternative, text, 0..Len(text)) # {}

\* self.binding_patterns
BindingPatterns ==
    << { << WordBoundary,
            OneOf({ <<"e","f","f","e","c","t","i","v","e">>, <<"c","o","m","m","e","n","c","e">>, <<"s","t","a","r","t">>, <<"b","e","g","i","n">>,
                    <<"b","i","n","d","i","n","g">> }),
            Whitespace, OneOf({ <<"o","n">>, <<"f","r","o","m">> }), WordBoundary >>,
         << WordBoundary,
            OneOf({ <<"e","f","f","e","c","t","i","v","e">>, <<"c","o","m","m","e","n","c","e">>, <<"s","t","a","r","t">>, <<"b","e","g","i","n">>,
                    <<"b","i","n","d","i","n","g">> }),
            Whitespace, OneOf({ <<"a","s">> }), Whitespace, OneOf({ <<"o","f">> }),
            WordBoundary >>,
         << WordBoundary, OneOf({ <<"e","n","t","e","r","e","d">> }), Whitespace,
            OneOf({ <<"i","n","t","o">> }), Whitespace, OneOf({ <<"o","n">>, <<"f","r","o","m">> }),
            WordBoundary >>,
         << WordBoundary, OneOf({ <<"e","n","t","e","r","e","d">> }), Whitespace,
            OneOf({ <<"i","n","t","o">> }), Whitespace, OneOf({ <<"a","s">> }), Whitespace,
            OneOf({ <<"o","f">> }), WordBoundary >> },
       { << WordBoundary, OneOf({ <<"t","e","r","m">>, <<"a","g","r","e","e","m","e","n","t">> }), Whitespace,
            OneOf({ <<"c","o","m","m","e","n","c","e">>, <<"b","e","g","i","n">>, <<"s","t","a","r","t">> }), WordBoundary >>,
         << WordBoundary, OneOf({ <<"t","e","r","m">>, <<"a","g","r","e","e","m","e","n","t">> }), Whitespace,
            OneOf({ <<"s","h","a","l","l">> }), Whitespace,
            OneOf({ <<"c","o","m","m","e","n","c","e">>, <<"b","e","g","i","n">>, <<"s","t","a","r","t">> }), WordBoundary >> },
       { << WordBoundary, OneOf({ <<"e","f","f","e","c","t","i","v","e">> }), Whitespace,
            OneOf({ <<"d","a","t","e">> }), WordBoundary >> },
       { << WordBoundary, OneOf({ <<"s","i","g","n","e","d">>, <<"e","x","e","c","u","t","e","d">> }), Whitespace,
            OneOf({ <<"o","n">> }), WordBoundary >> } >>

\* self.example_patterns
ExamplePatterns ==
    << { << WordBoundary, OneOf({ <<"f","o","r">> }), Whitespace,
            OneOf({ <<"i","n","s","t","a","n","c","e">>, <<"e","x","a","m","p","l","e">> }), WordBoundary >>,
         << WordBoundary, OneOf({ <<"s","u","c","h">> }), Whitespace, OneOf({ <<"a","s">> }),
            WordBoundary >>,
         << WordBoundary, OneOf({ <<"e","g">>, <<"e",".","g">>, <<"e","g",".">>, <<"e",".","g",".">> }),
            WordBoundary >> },
       { << WordBoundary,
            OneOf({ <<"a","s","s","u","m","e">>, <<"s","u","p","p","o","s","e">>, <<"h","y","p","o","t","h","e","t","i","c","a","l">> }),
            WordBoundary >> },
       { << WordBoundary, OneOf({ <<"i","f">> }), Whitespace,
            OneOf({ <<"d","a","t","e">>, <<"a","g","r","e","e","m","e","n","t">> }), WordBoundary >>,
         << WordBoundary, OneOf({ <<"i","f">> }), Whitespace, OneOf({ <<"t","h","e">> }),
            Whitespace, OneOf({ <<"d","a","t","e">>, <<"a","g","r","e","e","m","e","n","t">> }),
            WordBoundary >> } >>

\* self.historical_patterns
HistoricalPatterns ==
    << { << WordBoundary, OneOf({ <<"p","r","e","v","i","o","u","s","l","y">>, <<"f","o","r","m","e","r","l","y">>, <<"p","r","i","o","r">> }),
            Whitespace, OneOf({ <<"d","a","t","e","d">>, <<"e","f","f","e","c","t","i","v","e">> }),
            WordBoundary >> },
       { << WordBoundary, OneOf({ <<"w","a","s">> }), Whitespace,
            OneOf({ <<"e","f","f","e","c","t","i","v","e">>, <<"s","i","g","n","e","d">>, <<"d","a","t","e","d">> }),
            WordBoundary >> },
       { << WordBoundary, OneOf({ <<"o","l","d">> }), Whitespace,
            OneOf({ <<"a","g","r","e","e","m","e","n","t">>, <<"c","o","n","t","r","a","c","t">>, <<"d","a","t","e">> }),
            WordBoundary >> } >>

\* self.conditional_patterns
ConditionalPatterns ==
    << { << WordBoundary, OneOf({ <<"i","f">> }), Whitespace,
            OneOf({ <<"e","x","t","e","n","d","e","d">>, <<"r","e","n","e","w","e","d">>, <<"t","e","r","m","i","n","a","t","e","d">> }),
            WordBoundary >> },
       { << WordBoundary, OneOf({ <<"s","h","o","u","l","d">> }), Whitespace,
            OneOf({ <<"t","h","e">> }), Whitespace, OneOf({ <<"d","a","t","e">> }),
            WordBoundary >> },
       { << WordBoundary, OneOf({ <<"u","n","l","e","s","s">> }), Whitespace,
            OneOf({ <<"e","x","t","e","n","d","e","d">>, <<"t","e","r","m","i","n","a","t","e","d">> }), WordBoundary >> },
       { << WordBoundary, OneOf({ <<"p","r","o","v","i","d","e","d">> }), Whitespace,
            OneOf({ <<"t","h","a","t">> }), WordBoundary >> } >>

\* A float of the validator: <<t, u>> is the double u units in the last
\* place above the double nearest to t / 10. The scores are sums of 0.2,
\* 0.3 and 0.4, and on such doubles the pairs are ordered as the doubles
\* are.
Float(tenths) == <<tenths, 0>>

\* a < b on float
FloatLess(a, b) == a[1] < b[1] \/ (a[1] = b[1] /\ a[2] < b[2])

\* a + b on float, rounded to nearest as IEEE 754 has it: the sums below
\* are the ones that do not land on the double nearest to their tenth.
FloatAdd(a, b) ==
    << a[1] + b[1],
       CASE <<a, b>> = <<Float(2), Float(4)>> -> 1
         [] <<a, b>> = <<Float(4), Float(2)>> -> 1
         [] <<a, b>> = <<Float(6), Float(3)>> -> 0 - 1
         [] <<a, b>> = <<Float(8), Float(4)>> -> 1
         [] <<a, b>> = << <<9, 0 - 1>>, Float(2)>> -> 0 - 1
         [] <<a, b>> = << <<9, 0 - 1>>, Float(4)>> -> 0 - 1
         [] <<a, b>> = << <<12, 1>>, Float(2)>> -> 1
         [] <<a, b>> = <<Float(14), Float(4)>> -> 0 - 1
         [] OTHER -> 0 >>

\* min(score, 1.0)
Clamp(score) == IF FloatLess(Float(10), score) THEN Float(10) ELSE score

RECURSIVE Accumulate(_, _, _, _)
\* for pattern in patterns: if re.search(pattern, context): score += step
Accumulate(score, patterns, context, step) ==
    IF patterns = <<>> THEN score
    ELSE Accumulate(IF Search(Head(patterns), context)
                    THEN FloatAdd(score, step) ELSE score,
                    Tail(patterns), context, step)

\* score += boost if the regex is found
Boost(score, regex, context, boost) ==
    IF Search(regex, context) THEN FloatAdd(score, boost) ELSE score

\* The mutant of CheckBinding: the recital is scored like any other text.
CheckBindingWithoutRecital(context) ==
    Clamp(
      Boost(
        Boost(Accumulate(Float(0), BindingPatterns, context, Float(3)),
              { << WordBoundary, OneOf({ <<"s","h","a","l","l">>, <<"w","i","l","l">>, <<"m","u","s","t">> }),
                   WordBoundary >> }, context, Float(2)),
        { << WordBoundary, OneOf({ <<"d","a","y">> }), Whitespace,
             OneOf({ <<"o","f">> }), WordBoundary >> }, context, Float(4)))

\* _check_binding
CheckBinding(context) ==
    IF Search({ << OneOf({ <<"i","s">> }), Whitespace, OneOf({ <<"m","a","d","e">> }),
                   Whitespace, OneOf({ <<"a","n","d">> }), Whitespace,
                   OneOf({ <<"e","n","t","e","r","e","d">> }), Whitespace, OneOf({ <<"i","n","t","o">> }),
                   Whitespace, OneOf({ <<"a","s">> }), Whitespace,
                   OneOf({ <<"o","f">> }), WordBoundary >> }, context)
    THEN Float(10)
    ELSE Clamp(
           Boost(
             Boost(Accumulate(Float(0), BindingPatterns, context, Float(3)),
                   { << WordBoundary,
                        OneOf({ <<"s","h","a","l","l">>, <<"w","i","l","l">>, <<"m","u","s","t">> }),
                        WordBoundary >> }, context, Float(2)),
             { << WordBoundary, OneOf({ <<"d","a","y">> }), Whitespace,
                  OneOf({ <<"o","f">> }), WordBoundary >> }, context, Float(4)))

\* _check_example
CheckExample(context) ==
    Clamp(Accumulate(Float(0), ExamplePatterns, context, Float(4)))

\* _check_historical
CheckHistorical(context) ==
    Clamp(Boost(Accumulate(Float(0), HistoricalPatterns, context, Float(4)),
                { << WordBoundary, OneOf({ <<"w","a","s">>, <<"w","e","r","e">>, <<"h","a","d">> }),
                     WordBoundary >> }, context, Float(2)))

\* _check_conditional
CheckConditional(context) ==
    Clamp(Accumulate(Float(0), ConditionalPatterns, context, Float(3)))

\* context[:200] + "..." if len(context) > 200 else context
SupportingText(context) ==
    IF Len(context) > 200 THEN Slice(context, 0, 200) \o <<".",".",".">>
    ELSE context

\* The mutant of BestScore: the last of the highest.
BestScoreOfLast(scores) ==
    scores[CHOOSE i \in 1..Len(scores) :
              /\ \A j \in 1..Len(scores) :
                    ~FloatLess(scores[i][2], scores[j][2])
              /\ \A j \in (i + 1)..Len(scores) :
                    FloatLess(scores[j][2], scores[i][2])]

\* max(scores, key=lambda x: x[1]): the first of the highest
BestScore(scores) ==
    scores[CHOOSE i \in 1..Len(scores) :
              /\ \A j \in 1..Len(scores) :
                    ~FloatLess(scores[i][2], scores[j][2])
              /\ \A j \in 1..(i - 1) :
                    FloatLess(scores[j][2], scores[i][2])]

\* validate_date
ValidateDate(date_match, context) ==
    LET Decide(best) ==
            IF FloatLess(best[2], Float(3))
            THEN [date_type |-> "Unknown", confidence |-> Float(1),
                  supporting_text |-> SupportingText(context)]
            ELSE [date_type |-> best[1], confidence |-> best[2],
                  supporting_text |-> SupportingText(context)]
        Scored(context_lower) ==
            Decide(BestScore(
                << <<"Binding", CheckBinding(context_lower)>>,
                   <<"Example", CheckExample(context_lower)>>,
                   <<"Historical", CheckHistorical(context_lower)>>,
                   <<"Conditional", CheckConditional(context_lower)>> >>))
    IN Scored(Lower(context))
\* ------------------------------------------------------------------------
\* Model path
\* ------------------------------------------------------------------------
\* What client.chat.complete does for one call:
\*   kind = "raise"         it raises (SDKError, a timeout, anything else),
\*   kind = "no_choices"    it returns a response without choices,
\*   kind = "no_content"    the first choice's content is None,
\*   kind = "content"       the first choice's content is the text content.
Raise == [kind |-> "raise", content |-> <<>>]

NoChoices == [kind |-> "no_choices", content |-> <<>>]

NoContent == [kind |-> "no_content", content |-> <<>>]

Content(text) == [kind |-> "content", content |-> text]

\* The reply recorded for a call that was never made.
NoReply == [kind |-> "none", content |-> <<>>]

\* The mutant of Propagates: the exception of a failed call leaves the
\* method.
PropagatesFailure(reply) == reply.kind \in {"raise", "no_content"}

\* Whether an exception raised inside _get_*_with_llm leaves the method:
\* "except SDKError" and "except Exception" log it and fall through to
\* "return None, None".
Propagates(reply) == FALSE

\* The mutant of Canonical: the literal of renewal_terms for both fields.
CanonicalOfRenewal(field) == NoRenewalTermsSpecified

\* The canonical literal a rejected answer is replaced by.
Canonical(field) ==
    IF field = "renewal_terms" THEN NoRenewalTermsSpecified ELSE NotSpecified

\* The mutant of VacuityChecked: only _get_renewal_terms_with_llm checks.
VacuityCheckedForRenewalOnly(field) == field = "renewal_terms"

\* Whether _get_*_with_llm puts its answer through the vacuity check.
VacuityChecked(field) ==
    field \in {"renewal_terms", "termination_notice_period"}

\* _get_start_date_with_llm, _get_end_date_with_llm,
\* _get_renewal_terms_with_llm, _get_termination_notice_period_with_llm once
\* the key is there and the client has replied: <<value, page>>.
GetWithLlm(field, pages, reply) ==
    IF reply.kind # "content" THEN <<None, NoPage>>
    ELSE
      LET Checked(out) ==
              IF /\ VacuityChecked(field)
                 /\ Truthy(out[1])
                 /\ IsUninformativeLlmAnswer(out[1], field)
              THEN <<Canonical(field), NoPage>>
              ELSE out
      IN Checked(ProcessLlmOutput(pages, Strip(reply.content), field))

\* ------------------------------------------------------------------------
\* Orchestrator
\* ------------------------------------------------------------------------
\* The mutant of UseInference: the test of the dates is applied to no other
\* field.
UseInferenceForDatesOnly(key, llm_value) ==
    /\ key \in {"start_date", "end_date"}
    /\ Truthy(llm_value) /\ llm_value # NotFound

\* The condition under which the model's value replaces final_data[key]:
\* "if llm_x and llm_x != 'Not Found'" for three keys,
\* "if llm_termination_notice_period" for the fourth.
UseInference(key, llm_value) ==
    IF key = "termination_notice_period" THEN Truthy(llm_value)
    ELSE Truthy(llm_value) /\ llm_value # NotFound

\* "Prioritize LLM results for the 4 specific fields"
Prioritize(final_data, llm, pages) ==
    [key \in SUPPORTED_KEYS |->
        IF UseInference(key, llm[key][1])
        THEN ExtractionResult(llm[key][1], INFERENCE, llm[key][2],
                 BuildReferenceSnippet(pages, llm[key][1], llm[key][2], None))
        ELSE final_data[key]]

\* ExtractionResult.to_dict
ToDict(r) == r

\* The error shape
ErrorShape(message) == [error |-> message]

\* The mutant of IsEncrypted: the check of doc.is_encrypted is lost.
NeverEncrypted(d) == FALSE

\* doc.is_encrypted
IsEncrypted(d) == d.encrypted

\* any(page.text.strip() for page in pages)
AnyText(pages) == \E i \in 1..Len(pages) : Strip(pages[i].text) # <<>>

\* ------------------------------------------------------------------------
\* Inputs
\* ------------------------------------------------------------------------
Page1A == <<"1"," ","T","e","r","m","\n","S","t","a","r","t","s"," ","M","a","y"," ","1",","," ","2","0","2","0",".","\n"," ","E","n","d","s",":"," ","2","0","2","1",".">>

Page2A == <<"S","e","c","t","i","o","n"," ","R","e","n","e","w","a","l","\n","\n","R","e","n","e","w","s"," ","y","e","a","r","l","y","."," ","N","o","t","i","c","e",":"," ","3","0"," ","d","a","y","s",".">>

Page1B == <<"H","e","l","l","o"," ","t","h","e","r","e",".">>

Page1C == <<"S","t","a","r","t","s"," ","M","a","y"," ","1",".">>

Page3C == <<"2"," ","D","a","t","e","s","\n","S","t","a","r","t","s"," "," ","M","a","y"," ","1",",","\n","2","0","2","0","."," ","E","n","d","s",":"," ","2","0","2","1","!">>

\* A document as the loader sees it: whether fitz.open succeeds, whether the
\* document is encrypted, and the text page.get_text yields for each page
\* ("" also where get_text raises).
Document(opens, encrypted, texts) ==
    [opens |-> opens, encrypted |-> encrypted, texts |-> texts]

BadDocuments ==
    { Document(FALSE, FALSE, <<>>),
      Document(TRUE, TRUE, <<Page1A, Page2A>>),
      Document(TRUE, FALSE, << <<" ","\n">>, <<>> >>) }

GoodDocuments ==
    { Document(TRUE, FALSE, <<Page1A, Page2A>>),
      Document(TRUE, FALSE, <<Page1B>>),
      Document(TRUE, FALSE, <<Page1C, <<>>, Page3C>>) }

Documents == BadDocuments \cup GoodDocuments

Pattern(valid, lit, capture) ==
    [valid |-> valid, lit |-> lit, capture |-> capture, error |-> "re.error"]

\* A regex whose repetition count re refuses with OverflowError.
TooLargePattern ==
    [valid |-> FALSE, lit |-> <<>>, capture |-> FALSE,
     error |-> "OverflowError"]

\* The tables _build_comprehensive_patterns can have loaded.
PatternTables ==
    { [key \in SUPPORTED_KEYS |-> NoConfig],
      [start_date |->
          PatternConfig(<<Pattern(TRUE, <<"s","t","a","r","t","s"," ">>, TRUE)>>, NotFound, FALSE),
       end_date |->
          PatternConfig(<<Pattern(TRUE, <<"e","n","d","s",":"," ">>, TRUE)>>, NotFound, FALSE),
       renewal_terms |->
          PatternConfig(<<Pattern(FALSE, <<>>, FALSE),
                          Pattern(TRUE, <<"r","e","n","e","w","s"," ">>, TRUE)>>,
                        <<"N","o"," ","r","e","n","e","w","a","l">>, FALSE),
       termination_notice_period |->
          PatternConfig(<<Pattern(TRUE, <<"n","o","t","i","c","e",":"," ">>, TRUE)>>, NotFound, FALSE)],
      [start_date |->
          PatternConfig(<<Pattern(TRUE, <<"c","o","m","m","e","n","c","e","s"," ">>, TRUE)>>, <<>>, FALSE),
       end_date |->
          PatternConfig(<<Pattern(TRUE, <<"e","x","p","i","r","e","s"," ">>, TRUE)>>, None, FALSE),
       renewal_terms |->
          PatternConfig(<<Pattern(TRUE, <<"y","e","a","r","l","y">>, FALSE),
                          Pattern(FALSE, <<>>, FALSE),
                          Pattern(TRUE, <<"r","e","n","e","w","s">>, FALSE)>>, NotFound, TRUE),
       termination_notice_period |-> NoConfig],
      [start_date |->
          PatternConfig(<<Pattern(TRUE, <<"s","t","a","r","t","s"," ">>, TRUE)>>, NotFound, FALSE),
       end_date |->
          PatternConfig(<<Pattern(TRUE, <<"e","n","d","s",":"," ">>, TRUE), TooLargePattern>>,
                        NotFound, FALSE),
       renewal_terms |-> NoConfig,
       termination_notice_period |->
          PatternConfig(<<Pattern(TRUE, <<"n","o","t","i","c","e",":"," ">>, TRUE)>>, NotFound, FALSE)] }

\* The replies of the model the checks draw from, for each field.
Replies(field) ==
    {Raise} \cup
    CASE field = "start_date" ->
           { Content(<<"N","o","t"," ","F","o","u","n","d">>),
             Content(<<"M","a","y"," ","1",","," ","2","0","2","0"," ","|","|","|"," ","P","A","G","E","=","1">>),
             Content(<<"S","t","a","r","t"," ","d","a","t","e",":"," ","M","a","y"," ","1",","," ","2","0","2","0"," ","|","|","|"," ","P","A","G","E","=","9">>) }
      [] field = "end_date" ->
           { NoChoices, Content(<<"N","o","t"," ","F","o","u","n","d"," ","|","|","|"," ","P","A","G","E","=","U","N","K","N","O","W","N">>),
             Content(<<>>), Content(<<"2","0","2","1">>) }
      [] field = "renewal_terms" ->
           { NoContent, Content(<<"N","o","t"," ","F","o","u","n","d">>),
             Content(<<"R","e","n","e","w","a","l"," ","t","e","r","m","s"," ","m","e","n","t","i","o","n","e","d","."," ","|","|","|"," ","P","A","G","E","=","2">>),
             Content(<<"R","e","n","e","w","s"," ","y","e","a","r","l","y","."," ","|","|","|"," ","P","A","G","E","=","2">>) }
      [] OTHER ->
           { Content(<<"N","o","t"," ","F","o","u","n","d">>), Content(<<"A","s"," ","p","e","r"," ","t","h","e"," ","c","o","n","t","r","a","c","t",".">>),
             Content(<<"3","0"," ","d","a","y","s"," ","n","o","t","i","c","e"," ","|","|","|"," ","P","A","G","E","=","2">>) }

\* ------------------------------------------------------------------------
\* State
\* ------------------------------------------------------------------------
VARIABLES
    pc,                  \* where extract_from_pdf is
    doc,                 \* the document behind pdf_file
    patterns,            \* self.patterns
    api_key,             \* whether MISTRAL_API_KEY is set
    page_texts,          \* page_texts of extract_from_pdf
    preprocessed_pages,  \* preprocessed_pages of _extract_contract_basics
    reply,               \* what the client replied to the call of each field
    calls,               \* how often the client was called for each field
    llm,                 \* <<llm_x, llm_x_page>> of each field
    windows,             \* windows
    pattern_runs,        \* how often _extract_with_patterns was called
    all_hits,            \* all_hits
    final_data,          \* final_data
    result,              \* the dict extract_from_pdf returns
    snip,                \* one call of _build_reference_snippet
    seg,                 \* one call of _generate_context_windows_for_text
    ask,                 \* one call of _get_*_with_llm
    val,                 \* one call of DateSemanticValidator.validate_date
    ext,                 \* one call of _apply_pattern_config
    mrg,                 \* one call of _merge_window_results
    win,                 \* one call of _generate_context_windows
    threads,             \* the requests app.py serves at the same time
    tracemalloc,         \* the tracemalloc module of the process
    pack,                \* the sentence loop of one paragraph
    proc,                \* one call of _process_llm_output
    finder,              \* one call of _find_page_number_for_value
    prof                 \* one call of performance_profiler's wrapper

\* The variables of the calls looked at on their own.
units == <<snip, seg, ask, val, ext, mrg, win, threads, tracemalloc, pack, proc, finder, prof>>

vars == <<pc, doc, patterns, api_key, page_texts, preprocessed_pages, reply,
          calls, llm, windows, pattern_runs, all_hits, final_data, result,
          units>>

\* The variables of extract_from_pdf.
extraction == <<pc, doc, patterns, api_key, page_texts, preprocessed_pages,
                reply, calls, llm, windows, pattern_runs, all_hits, final_data,
                result>>

\* No call of _build_reference_snippet is looked at.
NoSnippet == <<>>

\* No call of _generate_context_windows_for_text is looked at.
NoSegmenter == <<>>

\* No call of the other units is looked at.
NoCall == <<>>

\* No dict yet.
NoResult == <<>>

\* final_data before _merge_window_results has run.
NoData == [key \in SUPPORTED_KEYS |-> ExtractionResult(None, NONE, NoPage, None)]

Fresh ==
    /\ page_texts = <<>>
    /\ preprocessed_pages = <<>>
    /\ reply = [key \in SUPPORTED_KEYS |-> NoReply]
    /\ calls = [key \in SUPPORTED_KEYS |-> 0]
    /\ llm = [key \in SUPPORTED_KEYS |-> <<None, NoPage>>]
    /\ windows = <<>>
    /\ pattern_runs = 0
    /\ all_hits = <<>>
    /\ final_data = NoData
    /\ result = NoResult

Init ==
    /\ doc \in Documents
    /\ patterns \in PatternTables
    /\ api_key \in BOOLEAN
    /\ pc = "open"
    /\ Fresh
    /\ snip = NoSnippet /\ seg = NoSegmenter /\ ask = NoCall /\ val = NoCall /\ ext = NoCall /\ mrg = NoCall /\ win = NoCall /\ threads = NoCall /\ tracemalloc = NoCall /\ pack = NoCall /\ proc = NoCall /\ finder = NoCall /\ prof = NoCall

\* ------------------------------------------------------------------------
\* extract_from_pdf
\* ------------------------------------------------------------------------
Return(dict) ==
    /\ result' = dict
    /\ pc' = "profile"

\* fitz.open raises: "except Exception" returns the error shape.
OpenFails ==
    /\ pc = "open"
    /\ ~doc.opens
    /\ Return(ErrorShape("Failed to read PDF."))
    /\ UNCHANGED <<units, doc, patterns, api_key, page_texts, preprocessed_pages,
                   reply, calls, llm, windows, pattern_runs, all_hits,
                   final_data>>

\* if doc.is_encrypted: return {"error": ...}
Encrypted ==
    /\ pc = "open"
    /\ doc.opens
    /\ IsEncrypted(doc)
    /\ Return(ErrorShape("PDF is encrypted and cannot be processed."))
    /\ UNCHANGED <<units, doc, patterns, api_key, page_texts, preprocessed_pages,
                   reply, calls, llm, windows, pattern_runs, all_hits,
                   final_data>>

\* _extract_text_from_pdf
ExtractTextFromPdf(d) ==
    [i \in 1..Len(d.texts) |-> [page_number |-> i, text |-> d.texts[i]]]

\* if not any(page.text.strip() ...): return {"error": ...}
NoReadableText ==
    /\ pc = "open"
    /\ doc.opens
    /\ ~IsEncrypted(doc)
    /\ ~AnyText(ExtractTextFromPdf(doc))
    /\ page_texts' = ExtractTextFromPdf(doc)
    /\ Return(ErrorShape("No readable text found in the PDF."))
    /\ UNCHANGED <<units, doc, patterns, api_key, preprocessed_pages, reply, calls,
                   llm, windows, pattern_runs, all_hits, final_data>>

\* The document is loaded and _extract_contract_basics is entered: its own
\* check of the text passes, and the pages are preprocessed.
Load ==
    /\ pc = "open"
    /\ doc.opens
    /\ ~IsEncrypted(doc)
    /\ AnyText(ExtractTextFromPdf(doc))
    /\ page_texts' = ExtractTextFromPdf(doc)
    /\ preprocessed_pages' =
          [i \in 1..Len(doc.texts) |->
              [page_number |-> i, text |-> PreprocessContract(doc.texts[i])]]
    /\ pc' = "llm_start_date"
    /\ UNCHANGED <<units, doc, patterns, api_key, reply, calls, llm, windows,
                   pattern_runs, all_hits, final_data, result>>

\* The mutant of SkipsLlm: the test of the key is lost.
NeverSkipsLlm(key_is_set) == FALSE

\* "if not api_key: ... return None, None", before the client is built.
SkipsLlm(key_is_set) == ~key_is_set

\* One of the four calls of lines 794-800.
LlmStep(field, at, next) ==
    /\ pc = at
    /\ \/ \* MISTRAL_API_KEY not set: skipped, nothing is called
          /\ SkipsLlm(api_key)
          /\ llm' = [llm EXCEPT ![field] = <<None, NoPage>>]
          /\ pc' = next
          /\ UNCHANGED <<reply, calls, result>>
       \/ /\ ~SkipsLlm(api_key)
          /\ \E r \in Replies(field) :
                /\ reply' = [reply EXCEPT ![field] = r]
                /\ calls' = [calls EXCEPT ![field] = @ + 1]
                /\ IF Propagates(r)
                   THEN \* caught by _extract_contract_basics
                        /\ Return(ErrorShape(
                               "Failed to extract contract information."))
                        /\ UNCHANGED llm
                   ELSE /\ llm' = [llm EXCEPT ![field] =
                                      GetWithLlm(field, preprocessed_pages, r)]
                        /\ pc' = next
                        /\ UNCHANGED result
    /\ UNCHANGED <<units, doc, patterns, api_key, page_texts, preprocessed_pages,
                   windows, pattern_runs, all_hits, final_data>>

GetStartDate == LlmStep("start_date", "llm_start_date", "llm_end_date")

GetEndDate == LlmStep("end_date", "llm_end_date", "llm_renewal_terms")

GetRenewalTerms ==
    LlmStep("renewal_terms", "llm_renewal_terms",
            "llm_termination_notice_period")

GetTerminationNoticePeriod ==
    LlmStep("termination_notice_period", "llm_termination_notice_period",
            "windows")

\* windows = self._generate_context_windows(preprocessed_pages, WindowConfig())
GenerateWindows ==
    /\ pc = "windows"
    /\ windows' = GenerateContextWindows(preprocessed_pages, DefaultWindowConfig)
    /\ pc' = "patterns"
    /\ UNCHANGED <<units, doc, patterns, api_key, page_texts, preprocessed_pages,
                   reply, calls, llm, pattern_runs, all_hits, final_data,
                   result>>

\* for w in windows: hits = self._extract_with_patterns(w.text) ...
\* An exception that leaves _extract_with_patterns is caught by the
\* "except Exception" of _extract_contract_basics (866-868).
RunPatterns ==
    LET Ran(hits) ==
            IF hits = RaisedHits
            THEN /\ Return(ErrorShape(
                        "Failed to extract contract information: the repetition number is too large"))
                 /\ pattern_runs' =
                       CHOOSE n \in 1..Len(windows) :
                           /\ ExtractWithPatterns(windows[n].text, patterns)
                                  = RaisedExtraction
                           /\ \A m \in 1..(n - 1) :
                                 ExtractWithPatterns(windows[m].text, patterns)
                                     # RaisedExtraction
                 /\ UNCHANGED all_hits
            ELSE /\ all_hits' = hits
                 /\ pattern_runs' = Len(windows)
                 /\ pc' = "merge"
                 /\ UNCHANGED result
    IN /\ pc = "patterns"
       /\ Ran(AllHits(windows, patterns))
       /\ UNCHANGED <<units, doc, patterns, api_key, page_texts,
                      preprocessed_pages, reply, calls, llm, windows,
                      final_data>>

\* final_data = self._merge_window_results(all_hits, pages)
Merge ==
    /\ pc = "merge"
    /\ final_data' = MergeWindowResults(all_hits, page_texts, patterns)
    /\ pc' = "prioritize"
    /\ UNCHANGED <<units, doc, patterns, api_key, page_texts, preprocessed_pages,
                   reply, calls, llm, windows, pattern_runs, all_hits, result>>

\* Lines 812-849.
Override ==
    /\ pc = "prioritize"
    /\ final_data' = Prioritize(final_data, llm, page_texts)
    /\ pc' = "assemble"
    /\ UNCHANGED <<units, doc, patterns, api_key, page_texts, preprocessed_pages,
                   reply, calls, llm, windows, pattern_runs, all_hits, result>>

\* len(raw_text), raw_text being the preprocessed pages joined by "\n"
ContractLength(pages) ==
    Len(JoinWith(<<"\n">>, [i \in 1..Len(pages) |-> pages[i].text]))

\* Lines 851-864 and, back in extract_from_pdf, results["pages_analysed"].
\* final_data holds every key of SUPPORTED_KEYS after the merger, so
\* final_data.get(key) is never None here.
Assemble ==
    /\ pc = "assemble"
    /\ Return([extraction_timestamp |-> "now",
               contract_type |-> "General Agreement",
               contract_length |-> ContractLength(preprocessed_pages),
               analysis |-> [key \in SUPPORTED_KEYS |-> ToDict(final_data[key])],
               pages_analysed |-> Len(page_texts)])
    /\ UNCHANGED <<units, doc, patterns, api_key, page_texts, preprocessed_pages,
                   reply, calls, llm, windows, pattern_runs, all_hits,
                   final_data>>

\* dict.setdefault("performance_metrics", {}) and .update(...)
WithMetrics(dict) ==
    [k \in DOMAIN dict \cup {"performance_metrics"} |->
        IF k = "performance_metrics"
        THEN [execution_time_seconds |-> "seconds",
              peak_memory_usage_mb |-> "megabytes"]
        ELSE dict[k]]

\* The finally block of performance_profiler's wrapper, and its return.
Profile ==
    /\ pc = "profile"
    /\ result' = WithMetrics(result)
    /\ pc' = "done"
    /\ UNCHANGED <<units, doc, patterns, api_key, page_texts, preprocessed_pages,
                   reply, calls, llm, windows, pattern_runs, all_hits,
                   final_data>>

Next ==
    \/ OpenFails
    \/ Encrypted
    \/ NoReadableText
    \/ Load
    \/ GetStartDate
    \/ GetEndDate
    \/ GetRenewalTerms
    \/ GetTerminationNoticePeriod
    \/ GenerateWindows
    \/ RunPatterns
    \/ Merge
    \/ Override
    \/ Assemble
    \/ Profile

Spec == Init /\ [][Next]_vars

\* ------------------------------------------------------------------------
\* The units on their own
\* ------------------------------------------------------------------------
\* extract_from_pdf is not running.
Parked ==
    /\ pc = "idle"
    /\ doc = Document(FALSE, FALSE, <<>>)
    /\ patterns = [key \in SUPPORTED_KEYS |-> NoConfig]
    /\ api_key = FALSE
    /\ Fresh

RECURSIVE Concat(_)
\* "".join(parts)
Concat(parts) == IF parts = <<>> THEN <<>> ELSE Head(parts) \o Concat(Tail(parts))

\* The texts made of at most n pieces.
TextsOf(pieces, n) ==
    UNION {{Concat(ps) : ps \in [1..k -> pieces]} : k \in 0..n}

\* --- _build_reference_snippet ---
MaxSnippetPieces == 3

MaxRadius == 1

SnippetPieces == { <<"A","b">>, <<"c","d">>, <<" ">>, <<","," ">> }

SnippetTexts == TextsOf(SnippetPieces, MaxSnippetPieces)

SnippetValues ==
    { <<>>, <<"a","b">>, <<"a","b"," ","c","d">>, <<"A","b",",","c","d">>, <<"b"," ","c">>, <<"a","b"," ","c","d"," ","z","z">> }

SecondPage == <<" ","C","d",",","a","b"," ">>

SnippetFallbacks == { None, <<" ","A","b"," "," ","c","d",","," ">> }

\* The radius of the code, and small ones that make the slice clip.
Radii == (0..MaxRadius) \cup {Radius}

InitSnippet ==
    /\ Parked
    /\ seg = NoSegmenter /\ ask = NoCall /\ val = NoCall /\ ext = NoCall /\ mrg = NoCall /\ win = NoCall /\ threads = NoCall /\ tracemalloc = NoCall /\ pack = NoCall /\ proc = NoCall /\ finder = NoCall /\ prof = NoCall
    /\ \E text \in SnippetTexts, value \in SnippetValues,
          page_number \in {NoPage, 1, 2, 3}, fallback_text \in SnippetFallbacks,
          radius \in Radii :
          snip = [pages |-> << [page_number |-> 1, text |-> text],
                               [page_number |-> 2, text |-> SecondPage] >>,
                  value |-> value,
                  page_number |-> page_number,
                  fallback_text |-> fallback_text,
                  radius |-> radius,
                  returned |-> FALSE,
                  reference_snippet |-> None]

CallBuildReferenceSnippet ==
    /\ ~snip.returned
    /\ snip' = [snip EXCEPT
                  !.returned = TRUE,
                  !.reference_snippet =
                      BuildReferenceSnippetR(snip.pages, snip.value,
                          snip.page_number, snip.fallback_text, snip.radius)]
    /\ UNCHANGED <<extraction, seg, ask, val, ext, mrg, win, threads, tracemalloc, pack, proc, finder, prof>>

NextSnippet == CallBuildReferenceSnippet

SpecSnippet == InitSnippet /\ [][NextSnippet]_vars

\* --- _generate_context_windows_for_text ---
MaxSegmenterPieces == 4

MaxSparse == 4

SegmenterPieces == { <<"1"," ","A">>, <<"\n">>, <<"a",".">>, <<" ">>, <<"b","b">> }

SegmenterTexts == TextsOf(SegmenterPieces, MaxSegmenterPieces)

\* Window sizes in the order of the shipped ones: dense no larger than
\* sparse.
WindowConfigs ==
    {cfg \in [max_chars_dense : 0..MaxSparse, max_chars_sparse : 0..MaxSparse] :
        cfg.max_chars_dense <= cfg.max_chars_sparse}

InitSegmenter ==
    /\ Parked
    /\ snip = NoSnippet /\ ask = NoCall /\ val = NoCall /\ ext = NoCall /\ mrg = NoCall /\ win = NoCall /\ threads = NoCall /\ tracemalloc = NoCall /\ pack = NoCall /\ proc = NoCall /\ finder = NoCall /\ prof = NoCall
    /\ \E text \in SegmenterTexts, cfg \in WindowConfigs :
          seg = [text |-> text, cfg |-> cfg, returned |-> FALSE,
                 windows |-> <<>>]

CallGenerateContextWindowsForText ==
    /\ ~seg.returned
    /\ seg' = [seg EXCEPT
                 !.returned = TRUE,
                 !.windows = TaggedWindowsForText(seg.text, seg.cfg)]
    /\ UNCHANGED <<extraction, snip, ask, val, ext, mrg, win, threads, tracemalloc, pack, proc, finder, prof>>

NextSegmenter == CallGenerateContextWindowsForText

SpecSegmenter == InitSegmenter /\ [][NextSegmenter]_vars

\* --- _get_*_with_llm ---
\* The answers of the model: phrasings of the allow-list, templated and
\* empty-handed ones, and informative ones.
AskAnswers ==
    { <<"N","o","t"," ","s","p","e","c","i","f","i","e","d">>, <<"N","o","t"," ","F","o","u","n","d",".">>, <<"N","o"," ","r","e","n","e","w","a","l"," ","t","e","r","m","s"," ","s","p","e","c","i","f","i","e","d">>,
      <<"R","e","n","e","w","a","l"," ","t","e","r","m","s"," ","m","e","n","t","i","o","n","e","d",".">>, <<"A","s"," ","p","e","r"," ","t","h","e"," ","c","o","n","t","r","a","c","t">>,
      <<"R","e","f","e","r"," ","t","o"," ","t","h","e"," ","a","g","r","e","e","m","e","n","t",".">>, <<"S","e","e"," ","p","a","g","e"," ","1">>, <<"3","0"," ","d","a","y","s"," ","n","o","t","i","c","e">>,
      <<"R","e","n","e","w","s"," ","y","e","a","r","l","y">> }

\* What follows the answer in the completion.
AskMarkers == { <<>>, <<" ","|","|","|"," ","P","A","G","E","=","3">>, <<" ","|","|","|"," ","P","A","G","E","=","U","N","K","N","O","W","N">> }

AskPages ==
    << [page_number |-> 1, text |-> Page1B],
       [page_number |-> 2, text |-> Page2A] >>

InitModelPath ==
    /\ Parked
    /\ snip = NoSnippet /\ seg = NoSegmenter /\ val = NoCall /\ ext = NoCall /\ mrg = NoCall /\ win = NoCall /\ threads = NoCall /\ tracemalloc = NoCall /\ pack = NoCall /\ proc = NoCall /\ finder = NoCall /\ prof = NoCall
    /\ \E field \in SUPPORTED_KEYS, answer \in AskAnswers,
          marker \in AskMarkers :
          ask = [field |-> field, pages |-> AskPages,
                 reply |-> Content(answer \o marker), returned |-> FALSE,
                 value |-> None, page_number |-> NoPage,
                 result |-> ExtractionResult(None, NONE, NoPage, None)]

\* One call of lines 794-800 with the key set and the client replying, and
\* what lines 813-849 make of the pair it returns.
CallGetWithLlm ==
    LET Contributed(out) ==
            [ask EXCEPT
               !.returned = TRUE,
               !.value = out[1],
               !.page_number = out[2],
               !.result = Prioritize(NoData,
                              [key \in SUPPORTED_KEYS |->
                                  IF key = ask.field THEN out
                                  ELSE <<None, NoPage>>],
                              ask.pages)[ask.field]]
    IN /\ ~ask.returned
       /\ ask' = Contributed(GetWithLlm(ask.field, ask.pages, ask.reply))
       /\ UNCHANGED <<extraction, snip, seg, val, ext, mrg, win, threads, tracemalloc, pack, proc, finder, prof>>

SpecModelPath == InitModelPath /\ [][CallGetWithLlm]_vars

\* --- validate_date ---
MaxPhrases == 2

ValidatorPhrases ==
    { <<"I","t"," ","I","s"," ","M","a","d","e"," ","a","n","d"," ","e","n","t","e","r","e","d"," ","i","n","t","o"," ","a","s"," ","o","f">>, <<"E","f","f","e","c","t","i","v","e"," ","D","a","t","e"," ","s","i","g","n","e","d"," ","o","n">>,
      <<"t","e","r","m"," ","s","h","a","l","l"," ","c","o","m","m","e","n","c","e">>, <<"d","a","y"," ","o","f">>, <<"s","h","a","l","l">>, <<"s","i","g","n","e","d"," ","o","n">>,
      <<"a","s","s","u","m","e"," ","e",".","g","."," ","i","f"," ","t","h","e"," ","d","a","t","e">>, <<"f","o","r"," ","e","x","a","m","p","l","e">>, <<"w","a","s"," ","s","i","g","n","e","d">>,
      <<"p","r","i","o","r"," ","d","a","t","e","d">>, <<"i","f"," ","r","e","n","e","w","e","d">>, <<"x">> }

RECURSIVE Sentences(_)
\* The contexts: at most n phrases, one space between two.
Sentences(n) ==
    IF n = 0 THEN {<<>>}
    ELSE Sentences(n - 1) \cup ValidatorPhrases \cup
         {s \o <<" ">> \o p : s \in Sentences(n - 1) \ {<<>>},
                            p \in ValidatorPhrases}

InitValidator ==
    /\ Parked
    /\ snip = NoSnippet /\ seg = NoSegmenter /\ ask = NoCall /\ ext = NoCall /\ mrg = NoCall /\ win = NoCall /\ threads = NoCall /\ tracemalloc = NoCall /\ pack = NoCall /\ proc = NoCall /\ finder = NoCall /\ prof = NoCall
    /\ \E context \in Sentences(MaxPhrases) :
          val = [date_match |-> <<"M","a","y"," ","1">>, context |-> context,
                 returned |-> FALSE,
                 scores |-> <<>>,
                 result |-> NoCall]

\* One call of validate_date; the four scores are kept beside the result.
CallValidateDate ==
    /\ ~val.returned
    /\ val' = [val EXCEPT
                 !.returned = TRUE,
                 !.scores = << CheckBinding(Lower(val.context)),
                               CheckExample(Lower(val.context)),
                               CheckHistorical(Lower(val.context)),
                               CheckConditional(Lower(val.context)) >>,
                 !.result = ValidateDate(val.date_match, val.context)]
    /\ UNCHANGED <<extraction, snip, seg, ask, ext, mrg, win, threads, tracemalloc, pack, proc, finder, prof>>

SpecValidator == InitValidator /\ [][CallValidateDate]_vars


\* --- _merge_window_results ---
MaxMergerWindows == 3

\* The page of the n-th window: two windows to a page.
MergerPageOf(n) == (n + 1) \div 2

MergerPages ==
    << [page_number |-> 1, text |-> <<"S","t","a","r","t","s"," ","M","a","y"," ","1",","," ","2","0","2","0","."," ","O","r"," ","M","a","y"," ","2","."," ","E","n","d","s"," ","2","0","2","1",".">>],
       [page_number |-> 2, text |-> <<"S","t","a","r","t","s"," ","M","a","y"," ","2","."," ","O","r"," ","M","a","y"," ","1","."," ","E","n","d","s"," ","2","0","2","1",".">>] >>

\* What _extract_with_patterns found in one window: two values of one
\* length and a longer one for start_date, one value for end_date.
MergerFound ==
    [start_date : {None, <<"M","a","y"," ","1">>, <<"M","a","y"," ","2">>, <<"M","a","y"," ","1",","," ","2","0","2","0">>},
     end_date : {None, <<"2","0","2","1">>},
     renewal_terms : {None},
     termination_notice_period : {None}]

RECURSIVE MergerHits(_, _)
\* all_hits as the loop over the windows builds it from what was found in
\* each, from window n on.
MergerHits(found, n) ==
    IF n > Len(found) THEN <<>>
    ELSE LET InHits(k) == found[n][k] # None
             keys == SelectSeq(KeyOrder, InHits)
         IN [i \in 1..Len(keys) |->
                [key |-> keys[i], val |-> found[n][keys[i]],
                 page_num |-> MergerPageOf(n),
                 context_text |-> MergerPages[MergerPageOf(n)].text]]
            \o MergerHits(found, n + 1)

InitMerger ==
    /\ Parked
    /\ snip = NoSnippet /\ seg = NoSegmenter /\ ask = NoCall /\ val = NoCall /\ ext = NoCall /\ win = NoCall /\ threads = NoCall /\ tracemalloc = NoCall /\ pack = NoCall /\ proc = NoCall /\ finder = NoCall /\ prof = NoCall
    /\ \E found \in [1..MaxMergerWindows -> MergerFound] :
          mrg = [hits |-> MergerHits(found, 1), pages |-> MergerPages,
                 returned |-> FALSE, merged |-> NoCall]

CallMergeWindowResults ==
    /\ ~mrg.returned
    /\ mrg' = [mrg EXCEPT
                 !.returned = TRUE,
                 !.merged = MergeWindowResults(mrg.hits, mrg.pages, patterns)]
    /\ UNCHANGED <<extraction, snip, seg, ask, val, ext, win, threads, tracemalloc, pack, proc, finder, prof>>

SpecMerger == InitMerger /\ [][CallMergeWindowResults]_vars

\* --- _extract_with_patterns ---
MaxExtractorPieces == 3

MaxPatterns == 2

ExtractorPieces == { <<"S","t","a","r","t","s"," ">>, <<"M","a","y"," ","1">>, <<".">>, <<" ">>, <<"t","e","r","m","\n">> }

ExtractorTexts == TextsOf(ExtractorPieces, MaxExtractorPieces)

\* The regexes a configured list is drawn from: two that capture, two that
\* do not, one that re.error rejects and one that OverflowError rejects.
ExtractorPatterns ==
    { Pattern(TRUE, <<"s","t","a","r","t","s"," ">>, TRUE), Pattern(TRUE, <<"t","e","r","m">>, TRUE),
      Pattern(TRUE, <<"m","a","y"," ","1">>, FALSE), Pattern(TRUE, <<" ">>, FALSE),
      Pattern(FALSE, <<>>, FALSE), TooLargePattern }

\* The configurations of a field that is not find_all.
ExtractorConfigs ==
    UNION {{PatternConfig(ps, NotFound, FALSE) :
               ps \in [1..n -> ExtractorPatterns]} : n \in 0..MaxPatterns}

InitExtractor ==
    /\ Parked
    /\ snip = NoSnippet /\ seg = NoSegmenter /\ ask = NoCall /\ val = NoCall /\ mrg = NoCall /\ win = NoCall /\ threads = NoCall /\ tracemalloc = NoCall /\ pack = NoCall /\ proc = NoCall /\ finder = NoCall /\ prof = NoCall
    /\ \E text \in ExtractorTexts, config \in ExtractorConfigs :
          ext = [text |-> text, config |-> config, returned |-> FALSE,
                 hits |-> NoCall]

\* One call of _extract_with_patterns, start_date being the configured key.
CallExtractWithPatterns ==
    /\ ~ext.returned
    /\ ext' = [ext EXCEPT
                 !.returned = TRUE,
                 !.hits = ExtractWithPatterns(ext.text,
                              [key \in SUPPORTED_KEYS |->
                                  IF key = "start_date" THEN ext.config
                                  ELSE NoConfig])]
    /\ UNCHANGED <<extraction, snip, seg, ask, val, mrg, win, threads, tracemalloc, pack, proc, finder, prof>>

SpecExtractor == InitExtractor /\ [][CallExtractWithPatterns]_vars

\* --- _generate_context_windows ---
MaxWindowPieces == 3

WindowPieces == { <<"1"," ","A">>, <<"\n">>, <<"a",".">>, <<" ">>, <<"S","e","c","t","i","o","n"," ","A","a">> }

\* The second page of the document: without a heading, with one, empty.
SecondPages == { <<"b","."," ","b","b",".">>, <<"b",".","\n","2"," ","B","\n","b","b","."," ","b",".">>, <<>> }

\* Window sizes small enough for the packing of sentences to happen, and
\* the shipped ones.
PageWindowConfigs ==
    { [max_chars_dense |-> 2, max_chars_sparse |-> 4],
      [max_chars_dense |-> 4, max_chars_sparse |-> 8],
      DefaultWindowConfig }

InitWindows ==
    /\ Parked
    /\ snip = NoSnippet /\ seg = NoSegmenter /\ ask = NoCall /\ val = NoCall /\ ext = NoCall /\ mrg = NoCall /\ threads = NoCall /\ tracemalloc = NoCall /\ pack = NoCall /\ proc = NoCall /\ finder = NoCall /\ prof = NoCall
    /\ \E first \in TextsOf(WindowPieces, MaxWindowPieces),
          second \in SecondPages, cfg \in PageWindowConfigs :
          win = [pages |-> << [page_number |-> 1,
                               text |-> PreprocessContract(first)],
                              [page_number |-> 2,
                               text |-> PreprocessContract(second)] >>,
                 cfg |-> cfg, returned |-> FALSE, windows |-> <<>>]

CallGenerateContextWindows ==
    /\ ~win.returned
    /\ win' = [win EXCEPT
                 !.returned = TRUE,
                 !.windows = GenerateContextWindows(win.pages, win.cfg)]
    /\ UNCHANGED <<extraction, snip, seg, ask, val, ext, mrg, threads, tracemalloc, pack, proc, finder, prof>>

SpecWindows == InitWindows /\ [][CallGenerateContextWindows]_vars

\* --- two requests on the one extractor of app.py ---
\* extract_from_pdf(pdf_file) as a function of the document, for the
\* configuration `table` of the shared extractor and without MISTRAL_API_KEY
\* (every _get_*_with_llm returns (None, None)): the dict the wrapped
\* function returns to performance_profiler's wrapper.
ExtractFromPdf(d, table) ==
    LET NoAnswers == [key \in SUPPORTED_KEYS |-> <<None, NoPage>>]
        Basics(raw_pages, pages, hits) ==
            IF hits = RaisedHits
            THEN ErrorShape(
                   "Failed to extract contract information: the repetition number is too large")
            ELSE [extraction_timestamp |-> "now",
                  contract_type |-> "General Agreement",
                  contract_length |-> ContractLength(pages),
                  analysis |->
                      [key \in SUPPORTED_KEYS |->
                          ToDict(Prioritize(
                              MergeWindowResults(hits, raw_pages, table),
                              NoAnswers, raw_pages)[key])],
                  pages_analysed |-> Len(raw_pages)]
        WithPages(raw_pages, pages) ==
            Basics(raw_pages, pages,
                   AllHits(GenerateContextWindows(pages, DefaultWindowConfig),
                           table))
    IN IF ~d.opens THEN ErrorShape("Failed to read PDF.")
       ELSE IF IsEncrypted(d)
       THEN ErrorShape("PDF is encrypted and cannot be processed.")
       ELSE IF ~AnyText(ExtractTextFromPdf(d))
       THEN ErrorShape("No readable text found in the PDF.")
       ELSE WithPages(ExtractTextFromPdf(d),
                   [i \in 1..Len(d.texts) |->
                       [page_number |-> i,
                        text |-> PreprocessContract(d.texts[i])]])

\* The threads of the development server that serve POST /analyze.
Workers == {"first", "second"}

\* The documents of the two requests.
ConcurrentDocuments ==
    { Document(TRUE, FALSE, <<Page1A, Page2A>>),
      Document(TRUE, FALSE, <<Page1B>>),
      Document(TRUE, TRUE, <<Page1A, Page2A>>) }

\* self.patterns of the extractor both requests use.
SharedPatterns ==
    [start_date |->
        PatternConfig(<<Pattern(TRUE, <<"s","t","a","r","t","s"," ">>, TRUE)>>, NotFound, FALSE),
     end_date |-> NoConfig,
     renewal_terms |-> NoConfig,
     termination_notice_period |-> NoConfig]

\* The memory an extraction allocates while it runs, in blocks of 10 kB: it
\* grows with the text of the document.
TracedBlocks(d) == 1 + Len(JoinWith(<<>>, d.texts))

\* f"{peak / 10**6:.2f}" of a peak of so many blocks of 10 kB: the digits
\* before and after the point.
FormatMb(blocks) == <<blocks \div 100, blocks % 100>>

\* result.setdefault("performance_metrics", {}) and .update(...) with the
\* peak read from tracemalloc.
WithPeak(dict, peak) ==
    [k \in DOMAIN dict \cup {"performance_metrics"} |->
        IF k = "performance_metrics"
        THEN [execution_time_seconds |-> "seconds",
              peak_memory_usage_mb |-> FormatMb(peak)]
        ELSE dict[k]]

\* tracemalloc when it is not tracing.
NotTracing == [tracing |-> FALSE, current |-> 0, peak |-> 0]

InitConcurrent ==
    /\ Parked
    /\ snip = NoSnippet /\ seg = NoSegmenter /\ ask = NoCall /\ val = NoCall /\ ext = NoCall /\ mrg = NoCall /\ win = NoCall /\ pack = NoCall /\ proc = NoCall /\ finder = NoCall /\ prof = NoCall
    /\ threads \in [Workers -> [pc : {"start"}, doc : ConcurrentDocuments,
                                result : {NoResult}, peak : {0}]]
    /\ tracemalloc = NotTracing

\* tracemalloc.start(): nothing happens when the module is tracing already.
WrapperStart(t) ==
    /\ threads[t].pc = "start"
    /\ tracemalloc' = IF tracemalloc.tracing THEN tracemalloc
                      ELSE [NotTracing EXCEPT !.tracing = TRUE]
    /\ threads' = [threads EXCEPT ![t].pc = "call"]
    /\ UNCHANGED <<extraction, snip, seg, ask, val, ext, mrg, win, pack, proc, finder, prof>>

\* result = func(*args, **kwargs): what the call allocates is counted by
\* tracemalloc, whichever thread started the tracing, while it is tracing.
WrapperCall(t) ==
    /\ threads[t].pc = "call"
    /\ threads' = [threads EXCEPT
                     ![t].pc = "finally",
                     ![t].result = ExtractFromPdf(threads[t].doc, SharedPatterns)]
    /\ tracemalloc' =
          IF ~tracemalloc.tracing THEN tracemalloc
          ELSE [tracemalloc EXCEPT
                  !.current = @ + TracedBlocks(threads[t].doc),
                  !.peak = Max(@, tracemalloc.current
                                    + TracedBlocks(threads[t].doc))]
    /\ UNCHANGED <<extraction, snip, seg, ask, val, ext, mrg, win, pack, proc, finder, prof>>

\* current, peak = tracemalloc.get_traced_memory(): (0, 0) when the module
\* is not tracing.
WrapperGetTracedMemory(t) ==
    /\ threads[t].pc = "finally"
    /\ threads' = [threads EXCEPT ![t].pc = "stop",
                                  ![t].peak = tracemalloc.peak]
    /\ UNCHANGED tracemalloc
    /\ UNCHANGED <<extraction, snip, seg, ask, val, ext, mrg, win, pack, proc, finder, prof>>

\* tracemalloc.stop(), the update of the dict, and the return.
WrapperStop(t) ==
    /\ threads[t].pc = "stop"
    /\ tracemalloc' = NotTracing
    /\ threads' = [threads EXCEPT
                     ![t].pc = "done",
                     ![t].result = WithPeak(@, threads[t].peak)]
    /\ UNCHANGED <<extraction, snip, seg, ask, val, ext, mrg, win, pack, proc, finder, prof>>

NextConcurrent ==
    \E t \in Workers :
        \/ WrapperStart(t)
        \/ WrapperCall(t)
        \/ WrapperGetTracedMemory(t)
        \/ WrapperStop(t)

SpecConcurrent == InitConcurrent /\ [][NextConcurrent]_vars

\* --- the sentence loop of _generate_context_windows_for_text ---
MaxSentences == 3

MaxDense == 6

\* What the list comprehension of line 251 can hold: stripped, non-empty.
SentenceTexts == { <<"a",".">>, <<"b","b",".">>, <<"c"," ","c","c","c",".">> }

SentenceLists == UNION {[1..n -> SentenceTexts] : n \in 0..MaxSentences}

InitPacker ==
    /\ Parked
    /\ snip = NoSnippet /\ seg = NoSegmenter /\ ask = NoCall /\ val = NoCall /\ ext = NoCall /\ mrg = NoCall /\ win = NoCall /\ threads = NoCall /\ tracemalloc = NoCall /\ proc = NoCall /\ finder = NoCall /\ prof = NoCall
    /\ \E sentences \in SentenceLists, max_chars_dense \in 0..MaxDense :
          pack = [sentences |-> sentences,
                  max_chars_dense |-> max_chars_dense,
                  idx |-> 0, sub |-> <<>>, windows |-> <<>>, at |-> "outer"]

\* cand = sub + " " + sentences[idx] if sub else sentences[idx]
Cand(sub, sentence) ==
    IF sub # <<>> THEN sub \o <<" ">> \o sentence ELSE sentence

\* while idx < len(sentences): sub = ""
OuterEnter ==
    /\ pack.at = "outer"
    /\ pack.idx < Len(pack.sentences)
    /\ pack' = [pack EXCEPT !.sub = <<>>, !.at = "inner"]
    /\ UNCHANGED <<extraction, snip, seg, ask, val, ext, mrg, win, threads, tracemalloc, proc, finder, prof>>

\* The outer test fails: the loop is left.
OuterExit ==
    /\ pack.at = "outer"
    /\ pack.idx >= Len(pack.sentences)
    /\ pack' = [pack EXCEPT !.at = "returned"]
    /\ UNCHANGED <<extraction, snip, seg, ask, val, ext, mrg, win, threads, tracemalloc, proc, finder, prof>>

\* if len(cand) <= cfg.max_chars_dense: sub = cand; idx += 1
InnerTake ==
    /\ pack.at = "inner"
    /\ pack.idx < Len(pack.sentences)
    /\ Len(Cand(pack.sub, pack.sentences[pack.idx + 1])) <= pack.max_chars_dense
    /\ pack' = [pack EXCEPT
                  !.sub = Cand(pack.sub, pack.sentences[pack.idx + 1]),
                  !.idx = pack.idx + 1]
    /\ UNCHANGED <<extraction, snip, seg, ask, val, ext, mrg, win, threads, tracemalloc, proc, finder, prof>>

\* The inner loop is left: by its test, or by break.
InnerLeave ==
    /\ pack.at = "inner"
    /\ ~(/\ pack.idx < Len(pack.sentences)
          /\ Len(Cand(pack.sub, pack.sentences[pack.idx + 1]))
                <= pack.max_chars_dense)
    /\ pack' = [pack EXCEPT !.at = "append"]
    /\ UNCHANGED <<extraction, snip, seg, ask, val, ext, mrg, win, threads, tracemalloc, proc, finder, prof>>

\* if sub: windows.append(sub)
AppendGroup ==
    /\ pack.at = "append"
    /\ pack.sub # <<>>
    /\ pack' = [pack EXCEPT
                  !.windows = Append(pack.windows,
                                     [text |-> pack.sub, kind |-> "group"]),
                  !.at = "outer"]
    /\ UNCHANGED <<extraction, snip, seg, ask, val, ext, mrg, win, threads, tracemalloc, proc, finder, prof>>

\* else: windows.append(sentences[idx][: cfg.max_chars_dense]); idx += 1
AppendSlice ==
    /\ pack.at = "append"
    /\ pack.sub = <<>>
    /\ pack' = [pack EXCEPT
                  !.windows = Append(pack.windows,
                      [text |-> Emergency(pack.sentences[pack.idx + 1],
                                          pack.max_chars_dense),
                       kind |-> "slice"]),
                  !.idx = pack.idx + 1,
                  !.at = "outer"]
    /\ UNCHANGED <<extraction, snip, seg, ask, val, ext, mrg, win, threads, tracemalloc, proc, finder, prof>>

NextPacker ==
    \/ OuterEnter
    \/ OuterExit
    \/ InnerTake
    \/ InnerLeave
    \/ AppendGroup
    \/ AppendSlice

\* The loop runs in one thread: its next statement is always executed.
SpecPacker == InitPacker /\ [][NextPacker]_vars /\ WF_vars(NextPacker)

\* --- _process_llm_output ---
\* The answers of the model, each with the page its own words name (NoPage
\* when they name none) and whether the sanitizer leaves nothing of it.
ProcessAnswers ==
    { [text |-> <<"M","a","y"," ","1",","," ","2","0","2","0">>, mention |-> NoPage, empty |-> FALSE],
      [text |-> <<"R","e","n","e","w","s"," ","y","e","a","r","l","y">>, mention |-> NoPage, empty |-> FALSE],
      [text |-> <<"A","s","k"," ","c","o","u","n","s","e","l">>, mention |-> NoPage, empty |-> FALSE],
      [text |-> <<"S","e","e"," ","p","a","g","e"," ","2">>, mention |-> 2, empty |-> FALSE],
      [text |-> <<"*","*">>, mention |-> NoPage, empty |-> TRUE],
      [text |-> <<>>, mention |-> NoPage, empty |-> TRUE] }

\* What follows the answer, with the page it names.
ProcessMarkers ==
    { [text |-> <<>>, page |-> NoPage],
      [text |-> <<" ","|","|","|">>, page |-> NoPage],
      [text |-> <<" ","|","|","|"," ","P","A","G","E","=","U","N","K","N","O","W","N">>, page |-> NoPage],
      [text |-> <<" ","|","|","|"," ","P","A","G","E","=","3">>, page |-> 3],
      [text |-> <<" ","|","|","|"," ","p","a","g","e"," ","1">>, page |-> 1] }

\* What the completion is wrapped in: nothing, a code fence, a code fence
\* with an info string.
ProcessFences ==
    { [open |-> <<>>, close |-> <<>>],
      [open |-> Fence \o <<"\n">>, close |-> <<"\n">> \o Fence],
      [open |-> Fence \o <<"p","a","g","e","9","\n">>, close |-> <<"\n">> \o Fence] }

ProcessPages ==
    << [page_number |-> 1, text |-> Page1A],
       [page_number |-> 2, text |-> Page2A] >>

InitProcess ==
    /\ Parked
    /\ snip = NoSnippet /\ seg = NoSegmenter /\ ask = NoCall /\ val = NoCall /\ ext = NoCall /\ mrg = NoCall /\ win = NoCall /\ threads = NoCall /\ tracemalloc = NoCall /\ pack = NoCall /\ finder = NoCall /\ prof = NoCall
    /\ \E field \in SUPPORTED_KEYS, answer \in ProcessAnswers,
          marker \in ProcessMarkers, fence \in ProcessFences :
          proc = [pages |-> ProcessPages, field |-> field,
                  answer |-> answer, marker |-> marker,
                  raw_output |-> fence.open \o answer.text \o marker.text
                                   \o fence.close,
                  returned |-> FALSE,
                  answer_value |-> None, page_number |-> NoPage]

CallProcessLlmOutput ==
    LET Done(out) == [proc EXCEPT !.returned = TRUE,
                                  !.answer_value = out[1],
                                  !.page_number = out[2]]
    IN /\ ~proc.returned
       /\ proc' = Done(ProcessLlmOutput(proc.pages, proc.raw_output,
                                        proc.field))
       /\ UNCHANGED <<extraction, snip, seg, ask, val, ext, mrg, win, threads, tracemalloc, pack, finder, prof>>

SpecProcess == InitProcess /\ [][CallProcessLlmOutput]_vars

\* --- _find_page_number_for_value ---
MaxFinderPages == 3

\* The texts a page can have.
FinderTexts ==
    { <<"T","e","r","m",":"," ","o","n","e"," ","t","w","o"," ","t","h","r","e","e",".">>,
      <<"O","n","e"," ","t","w","o"," ","t","h","r","e","e"," ","f","o","u","r"," ","f","i","v","e"," ","s","i","x"," ","s","e","v","e","n",".">>,
      <<"N","o","t","i","c","e",":"," ","s","i","x",","," ","s","e","v","e","n","!">> }

\* The documents: up to MaxFinderPages pages numbered from 1, any of the
\* texts on each.
FinderDocuments ==
    UNION {{[i \in 1..n |-> [page_number |-> i, text |-> texts[i]]] :
               texts \in [1..n -> FinderTexts]} : n \in 0..MaxFinderPages}

\* The values looked for: on a page as a whole, on a page with their
\* first six, four or three words only, with fewer than three words, and
\* without anything to look for.
FinderValues ==
    { <<"o","n","e"," ","t","w","o"," ","t","h","r","e","e">>, <<"O","n","e",","," ","T","w","o",";"," ","t","h","r","e","e"," ","f","o","u","r">>, <<"s","i","x"," ","s","e","v","e","n">>,
      <<"o","n","e"," ","t","w","o"," ","t","h","r","e","e"," ","f","o","u","r"," ","f","i","v","e"," ","s","i","x"," ","e","i","g","h","t">>,
      <<"o","n","e"," ","t","w","o"," ","t","h","r","e","e"," ","f","o","u","r"," ","n","i","n","e">>, <<"o","n","e"," ","t","w","o"," ","t","h","r","e","e"," ","n","i","n","e">>,
      <<"o","n","e"," ","t","w","o"," ","n","i","n","e">>, <<"s","e","v","e","n"," ","e","i","g","h","t">>, <<"e","i","g","h","t">>,
      <<".",".",".">>, <<>>, None }

InitFinder ==
    /\ Parked
    /\ snip = NoSnippet /\ seg = NoSegmenter /\ ask = NoCall /\ val = NoCall /\ ext = NoCall /\ mrg = NoCall /\ win = NoCall /\ threads = NoCall /\ tracemalloc = NoCall /\ pack = NoCall /\ proc = NoCall /\ prof = NoCall
    /\ \E pages \in FinderDocuments, value \in FinderValues :
          finder = [pages |-> pages, value |-> value, returned |-> FALSE,
                    page_number |-> NoPage]

CallFindPageNumberForValue ==
    /\ ~finder.returned
    /\ finder' = [finder EXCEPT
                    !.returned = TRUE,
                    !.page_number =
                        FindPageNumberForValue(finder.pages, finder.value)]
    /\ UNCHANGED <<extraction, snip, seg, ask, val, ext, mrg, win, threads, tracemalloc, pack, proc, prof>>

SpecFinder == InitFinder /\ [][CallFindPageNumberForValue]_vars

\* --- performance_profiler's wrapper around one call ---
\* How the wrapped call ends: it returns its dict, or a KeyboardInterrupt or
\* SystemExit is raised while it runs, which is no Exception and so passes
\* the "except Exception" of extract_from_pdf.
CallEndings == {"returns", "KeyboardInterrupt", "SystemExit"}

\* No exception is on its way out of the wrapper.
NoException == "none"

InitProfiler ==
    /\ Parked
    /\ snip = NoSnippet /\ seg = NoSegmenter /\ ask = NoCall /\ val = NoCall /\ ext = NoCall /\ mrg = NoCall /\ win = NoCall /\ threads = NoCall /\ tracemalloc = NoCall /\ pack = NoCall /\ proc = NoCall /\ finder = NoCall
    /\ \E d \in Documents, table \in PatternTables, ending \in CallEndings :
          prof = [doc |-> d, patterns |-> table, ending |-> ending,
                  pc |-> "start", bound |-> FALSE, result |-> NoResult,
                  exception |-> NoException]

\* tracemalloc.start(); start_time = time.perf_counter()
ProfilerStart ==
    /\ prof.pc = "start"
    /\ prof' = [prof EXCEPT !.pc = "call"]
    /\ UNCHANGED <<extraction, snip, seg, ask, val, ext, mrg, win, threads, tracemalloc, pack, proc, finder>>

\* result = func(*args, **kwargs), the call returning a dict.
ProfilerCallReturns ==
    /\ prof.pc = "call"
    /\ prof.ending = "returns"
    /\ prof' = [prof EXCEPT
                  !.pc = "finally",
                  !.bound = TRUE,
                  !.result = ExtractFromPdf(prof.doc, prof.patterns)]
    /\ UNCHANGED <<extraction, snip, seg, ask, val, ext, mrg, win, threads, tracemalloc, pack, proc, finder>>

\* result = func(*args, **kwargs), the call raising: result is not bound,
\* and the finally block runs with the exception pending.
ProfilerCallRaises ==
    /\ prof.pc = "call"
    /\ prof.ending # "returns"
    /\ prof' = [prof EXCEPT !.pc = "finally", !.exception = prof.ending]
    /\ UNCHANGED <<extraction, snip, seg, ask, val, ext, mrg, win, threads, tracemalloc, pack, proc, finder>>

\* The finally block with result bound: the metrics are put into the dict,
\* and the dict is returned.
ProfilerFinallyUpdates ==
    /\ prof.pc = "finally"
    /\ prof.bound
    /\ prof' = [prof EXCEPT !.pc = "done", !.result = WithMetrics(prof.result)]
    /\ UNCHANGED <<extraction, snip, seg, ask, val, ext, mrg, win, threads, tracemalloc, pack, proc, finder>>

\* The finally block with result unbound: isinstance(result, dict) raises
\* UnboundLocalError, which leaves the wrapper in place of the pending
\* exception.
ProfilerFinallyRaises ==
    /\ prof.pc = "finally"
    /\ ~prof.bound
    /\ prof' = [prof EXCEPT !.pc = "raised", !.exception = "UnboundLocalError"]
    /\ UNCHANGED <<extraction, snip, seg, ask, val, ext, mrg, win, threads, tracemalloc, pack, proc, finder>>

NextProfiler ==
    \/ ProfilerStart
    \/ ProfilerCallReturns
    \/ ProfilerCallRaises
    \/ ProfilerFinallyUpdates
    \/ ProfilerFinallyRaises

SpecProfiler == InitProfiler /\ [][NextProfiler]_vars

\* --- _generate_context_windows_for_text, on pages made of whole lines ---
MaxLines == 4

\* The lines a page is made of: two headings, a body of two sentences, a
\* blank line.
PageLines == { <<"1"," ","A","\n">>, <<"S","e","c","t","i","o","n"," ","B","b","\n">>, <<"a","."," ","b","b",".","\n">>, <<" ","\n">> }

LinedTexts == TextsOf(PageLines, MaxLines)

\* Sizes that make a heading with its paragraph too long for one window,
\* sizes that do so for the longer heading only, and the shipped ones.
LinedConfigs ==
    { [max_chars_dense |-> 3, max_chars_sparse |-> 8],
      [max_chars_dense |-> 6, max_chars_sparse |-> 12],
      DefaultWindowConfig }

InitLined ==
    /\ Parked
    /\ snip = NoSnippet /\ ask = NoCall /\ val = NoCall /\ ext = NoCall /\ mrg = NoCall /\ win = NoCall /\ threads = NoCall /\ tracemalloc = NoCall /\ pack = NoCall /\ proc = NoCall /\ finder = NoCall /\ prof = NoCall
    /\ \E text \in LinedTexts, cfg \in LinedConfigs :
          seg = [text |-> text, cfg |-> cfg, returned |-> FALSE,
                 windows |-> <<>>]

SpecLined == InitLined /\ [][NextSegmenter]_vars
\* ------------------------------------------------------------------------
\* Properties
\* ------------------------------------------------------------------------
\* extract_from_pdf has returned.
Returned == pc = "done"

\* It has returned the full record.
FullRecord == Returned /\ "analysis" \in DOMAIN result

\* It has returned the error shape.
ErrorRecord == Returned /\ "error" \in DOMAIN result

\* The values the windows produced for a field.
HitValues(key) ==
    {all_hits[i].val : i \in {j \in 1..Len(all_hits) : all_hits[j].key = key}}

\* At least one window produced a deterministic hit for the field.
Hit(key) == HitValues(key) # {}

\* A usable value: non-empty and not the literal "Not Found".
Usable(value) == value # None /\ value # <<>> /\ value # <<"N","o","t"," ","F","o","u","n","d">>

\* The fields whose answers are put through the vacuity check.
VacuityFields == {"renewal_terms", "termination_notice_period"}

\* The vacuity check rejected the sanitized answer of the field's reply.
Rejected(key) ==
    /\ key \in VacuityFields
    /\ reply[key].kind = "content"
    /\ LET out == ProcessLlmOutput(preprocessed_pages,
                                   Strip(reply[key].content), key)
       IN Truthy(out[1]) /\ IsUninformativeLlmAnswer(out[1], key)

\* The document was loaded and _extract_contract_basics entered.
Loaded == preprocessed_pages # <<>>

\* The field's model call failed: no credentials, an exception, a response
\* without choices or content, or an empty completion.
Failed(key) ==
    \/ Loaded /\ ~api_key
    \/ reply[key].kind \in {"raise", "no_choices", "no_content"}
    \/ reply[key].kind = "content" /\ Strip(reply[key].content) = <<>>

\* C1: whenever the model path yields a usable value for a field (non-empty
\* and not "Not Found"), the field's final result has source Inference and
\* carries that value, hit or no hit.
C1_UsableModelValueWins ==
    FullRecord =>
        \A key \in SUPPORTED_KEYS :
            Usable(llm[key][1]) =>
                /\ result.analysis[key].source = "Inference"
                /\ result.analysis[key].value = llm[key][1]

\* A usable model value has replaced a deterministic hit.
C1_Witness ==
    /\ FullRecord
    /\ \E key \in SUPPORTED_KEYS :
          /\ Usable(llm[key][1])
          /\ Hit(key)
          /\ result.analysis[key].source = "Inference"

\* C2: for every field, a model value of "Not Found" never overrides a
\* deterministic hit: the result keeps a hit's value with source Regex.
C2_NotFoundNeverOverrides ==
    FullRecord =>
        \A key \in SUPPORTED_KEYS :
            (llm[key][1] = <<"N","o","t"," ","F","o","u","n","d">> /\ Hit(key)) =>
                /\ result.analysis[key].source = "Regex"
                /\ result.analysis[key].value \in HitValues(key)

Alone(key) ==
    LET own == GetWithLlm(key, preprocessed_pages, reply[key])
        usable == IF key = "termination_notice_period" THEN Truthy(own[1])
                  ELSE Usable(own[1])
    IN IF usable
       THEN ExtractionResult(own[1], INFERENCE, own[2],
                BuildReferenceSnippet(page_texts, own[1], own[2], None))
       ELSE MergedResult(key, all_hits, page_texts, patterns)

\* C4: a failed model call of one field leaves the document with a full
\* record, that field with source Regex if it has a hit and System Fallback
\* otherwise, and each other field with the result of its own reply.
C4_FailureIsolated ==
    (Returned /\ \E key \in SUPPORTED_KEYS : Failed(key)) =>
        /\ DOMAIN result =
              {"extraction_timestamp", "contract_type", "contract_length",
               "analysis", "pages_analysed", "performance_metrics"}
        /\ \A key \in SUPPORTED_KEYS :
              Failed(key) =>
                  result.analysis[key].source =
                      (IF Hit(key) THEN "Regex" ELSE "System Fallback")
        /\ \A other \in SUPPORTED_KEYS :
              (\E key \in SUPPORTED_KEYS \ {other} : Failed(key)) =>
                  result.analysis[other] = Alone(other)

\* One call raised and its field kept a hit, another call failed without a
\* hit to keep, and a third field was answered by the model.
C4_Witness ==
    /\ FullRecord
    /\ \E key \in SUPPORTED_KEYS :
          /\ reply[key].kind = "raise"
          /\ result.analysis[key].source = "Regex"
    /\ \E key \in SUPPORTED_KEYS :
          /\ api_key /\ Failed(key)
          /\ result.analysis[key].source = "System Fallback"
    /\ \E key \in SUPPORTED_KEYS :
          result.analysis[key].source = "Inference"

\* C5: every full record holds, for the four supported fields and no other
\* key, a result whose value is neither null nor empty and whose source is
\* of the enumeration.
C5_EveryFieldHasValue ==
    FullRecord =>
        /\ DOMAIN result.analysis = SUPPORTED_KEYS
        /\ \A key \in SUPPORTED_KEYS :
              /\ result.analysis[key].value # None
              /\ result.analysis[key].value # <<>>
              /\ result.analysis[key].source \in ExtractionSource

\* C6: a field without a hit and without a usable model answer ends with
\* source System Fallback, no page, no snippet, and the configured
\* fallback_text ("Not Found" when no configuration is loaded) as value.
C6_FallbackResult ==
    FullRecord =>
        \A key \in SUPPORTED_KEYS :
            (~Hit(key) /\ ~Usable(llm[key][1])) =>
                /\ result.analysis[key].source = "System Fallback"
                /\ result.analysis[key].page_number = NoPage
                /\ result.analysis[key].reference_snippet = None
                /\ result.analysis[key].value =
                      (IF patterns[key].loaded THEN patterns[key].fallback_text
                       ELSE <<"N","o","t"," ","F","o","u","n","d">>)

\* C7: every page_number of a full record is the number of one of the
\* document's pages.
C7_PageExists ==
    FullRecord =>
        \A key \in SUPPORTED_KEYS :
            result.analysis[key].page_number # NoPage =>
                \E i \in 1..Len(page_texts) :
                    page_texts[i].page_number =
                        result.analysis[key].page_number

\* C8: a reference snippet is a contiguous substring of the original text
\* of the page named by page_number, or of the fallback block, on the exact
\* path and on the normalized and prefix paths of the slicing.
C8_SnippetIsSubstring ==
    (snip.returned /\ snip.reference_snippet # None) =>
        \/ \E i \in 1..Len(snip.pages) :
              /\ snip.pages[i].page_number = snip.page_number
              /\ Contains(snip.pages[i].text, snip.reference_snippet)
        \/ /\ snip.fallback_text # None
           /\ Contains(snip.fallback_text, snip.reference_snippet)

\* A snippet cut out of the page on the normalized path, shorter than the
\* page.
C8_Witness ==
    /\ snip.returned
    /\ snip.reference_snippet # None
    /\ snip.page_number = 1
    /\ snip.fallback_text = None
    /\ ~Contains(Lower(snip.pages[1].text), Lower(snip.value))
    /\ Len(snip.reference_snippet) < Len(Strip(snip.pages[1].text))

\* C9: every window the Segmenter emits is at most max_chars_sparse long,
\* or is an emergency slice of one sentence at most max_chars_dense long.
C9_WindowBound ==
    seg.returned =>
        \A i \in 1..Len(seg.windows) :
            \/ Len(seg.windows[i].text) <= seg.cfg.max_chars_sparse
            \/ /\ seg.windows[i].kind = "slice"
               /\ Len(seg.windows[i].text) <= seg.cfg.max_chars_dense

\* Loading the document fails: it cannot be opened, is encrypted, or has no
\* page with text.
LoadFails ==
    \/ ~doc.opens
    \/ doc.encrypted
    \/ \A i \in 1..Len(doc.texts) : Strip(doc.texts[i]) = <<>>

\* C10: when loading fails the extraction returns the error shape without
\* analysis, and no window is built, no pattern evaluated, no model call
\* issued.
C10_LoadFailureStops ==
    LoadFails =>
        /\ windows = <<>>
        /\ pattern_runs = 0
        /\ \A key \in SUPPORTED_KEYS : calls[key] = 0
        /\ pc \in {"open", "profile", "done"}
        /\ Returned => DOMAIN result = {"error", "performance_metrics"}

\* An encrypted document with text on its pages was answered by the error
\* shape although the credentials were there.
C10_Witness ==
    /\ ErrorRecord
    /\ doc.opens /\ doc.encrypted /\ api_key
    /\ \E i \in 1..Len(doc.texts) : Strip(doc.texts[i]) # <<>>

\* C11: for renewal_terms and termination_notice_period, when the vacuity
\* check rejects the sanitized answer, the model path contributes the
\* field's canonical literal without page and without snippet, whatever
\* page marker the completion carried; an answer of the allow-list is never
\* rejected and is contributed as it is.
C11_RejectedIsCanonical ==
    ask.returned =>
        LET Settled(sanitized) ==
                /\ ( /\ ask.field \in {"renewal_terms",
                                       "termination_notice_period"}
                     /\ Truthy(sanitized)
                     /\ IsUninformativeLlmAnswer(sanitized, ask.field) )
                   => /\ ask.value = (IF ask.field = "renewal_terms"
                                      THEN <<"N","o"," ","r","e","n","e","w","a","l"," ","t","e","r","m","s"," ","s","p","e","c","i","f","i","e","d">>
                                      ELSE <<"N","o","t"," ","s","p","e","c","i","f","i","e","d">>)
                      /\ ask.page_number = NoPage
                      /\ ask.result.value = ask.value
                      /\ ask.result.source = "Inference"
                      /\ ask.result.page_number = NoPage
                      /\ ask.result.reference_snippet = None
                /\ RStripDots(Lower(Strip(sanitized))) \in
                       { <<"n","o","t"," ","s","p","e","c","i","f","i","e","d">>, <<"n","o"," ","r","e","n","e","w","a","l"," ","t","e","r","m","s"," ","s","p","e","c","i","f","i","e","d">>,
                         <<"n","o","t"," ","f","o","u","n","d">> }
                   => ask.value = sanitized
        IN Settled(ProcessLlmOutput(ask.pages, Strip(ask.reply.content),
                                    ask.field)[1])

\* The templated answer of termination_notice_period, sent with the marker
\* PAGE=3, came back as "Not specified" without a page.
C11_Witness ==
    /\ ask.returned
    /\ ask.field = "termination_notice_period"
    /\ ask.reply.content = <<"A","s"," ","p","e","r"," ","t","h","e"," ","c","o","n","t","r","a","c","t"," ","|","|","|"," ","P","A","G","E","=","3">>
    /\ ask.value = <<"N","o","t"," ","s","p","e","c","i","f","i","e","d">>
    /\ ask.page_number = NoPage
    /\ ask.result.reference_snippet = None

\* C12: the validator returns the hypothesis with the highest of the four
\* scores, the first in the order Binding, Example, Historical, Conditional
\* on a tie, with that score as confidence; the result is Unknown with
\* confidence 0.1 exactly when the highest score is below 0.3, so that a
\* score of exactly 0.3 is kept.
C12_HighestScoreWins ==
    val.returned =>
        LET Names == <<"Binding", "Example", "Historical", "Conditional">>
            Below(a, b) == a[1] < b[1] \/ (a[1] = b[1] /\ a[2] < b[2])
            Highest(i) == \A j \in 1..4 : ~Below(val.scores[i], val.scores[j])
            First == CHOOSE i \in 1..4 :
                        Highest(i) /\ \A j \in 1..(i - 1) : ~Highest(j)
        IN /\ (val.result.date_type = "Unknown")
                 <=> Below(val.scores[First], <<3, 0>>)
           /\ IF Below(val.scores[First], <<3, 0>>)
              THEN val.result.confidence = <<1, 0>>
              ELSE /\ val.result.date_type = Names[First]
                   /\ val.result.confidence = val.scores[First]

\* Binding and Conditional tied at exactly 0.3, and Binding was returned
\* with confidence 0.3.
C12_Witness ==
    /\ val.returned
    /\ val.scores[1] = <<3, 0>>
    /\ val.scores[4] = <<3, 0>>
    /\ val.result.date_type = "Binding"
    /\ val.result.confidence = <<3, 0>>

\* The context holds the words "is made and entered into as of".
HasRecital(context) ==
    \E i \in 0..Len(context) :
        /\ MatchAt(Lower(context), <<"i","s"," ","m","a","d","e"," ","a","n","d"," ","e","n","t","e","r","e","d"," ","i","n","t","o"," ","a","s"," ","o","f">>, i)
        /\ \/ i + 30 = Len(context)
           \/ ~IsWord(context[i + 31])

\* C13: whenever the context holds the recital "is made and entered into as
\* of", the validator returns Binding with confidence 1.0, whatever other
\* indicators the context holds and also when another score is 1.0.
C13_RecitalIsBinding ==
    (val.returned /\ HasRecital(val.context)) =>
        /\ val.result.date_type = "Binding"
        /\ val.result.confidence = <<10, 0>>

\* A recital beside three example indicators, whose score is clamped to 1.0,
\* came back as Binding.
C13_Witness ==
    /\ val.returned
    /\ HasRecital(val.context)
    /\ val.scores[2] = <<10, 0>>
    /\ val.result.date_type = "Binding"

\* The configuration without the regexes re cannot compile.
WithoutMalformed(table) ==
    LET Compiles(pattern) == pattern.valid
    IN [key \in SUPPORTED_KEYS |->
           [table[key] EXCEPT !.patterns = SelectSeq(@, Compiles)]]

\* A regex re cannot compile is in the loaded configuration.
HasMalformed(table) ==
    \E key \in SUPPORTED_KEYS :
        \E k \in 1..Len(table[key].patterns) : ~table[key].patterns[k].valid

\* C14: a regex that cannot be compiled is skipped: once the patterns have
\* run over the windows, the hits are those of the configuration without
\* that regex, and the document returns a full record.
C14_MalformedIsSkipped ==
    (HasMalformed(patterns) /\ pattern_runs > 0) =>
        /\ all_hits = AllHits(windows, WithoutMalformed(patterns))
        /\ Returned => FullRecord

\* C16: an extraction whose document loaded returns a full record, whatever
\* was raised while its patterns were evaluated.
C16_OnlyLoadingFails ==
    (Returned /\ ~LoadFails) => FullRecord

\* C17: the client is called at most once for each field, never when the
\* key is not set, and exactly once, whatever the reply was, for each field
\* whose method has run with the key set.
C17_OneCallPerField ==
    \A key \in SUPPORTED_KEYS :
        /\ calls[key] <= 1
        /\ ~api_key => calls[key] = 0
        /\ calls[key] = (IF reply[key] = NoReply THEN 0 ELSE 1)

\* The extraction returned a full record after exactly four calls: one that
\* raised, one with an empty completion and one whose answer was rejected.
C17_Witness ==
    /\ FullRecord
    /\ api_key
    /\ \A key \in SUPPORTED_KEYS : calls[key] = 1
    /\ reply["start_date"].kind = "raise"
    /\ reply["end_date"] = Content(<<>>)
    /\ Rejected("termination_notice_period")

\* The places in the hits of the hits of the key.
HitsOf(key) == {i \in 1..Len(mrg.hits) : mrg.hits[i].key = key}

\* C18: for each field with a hit the merged result is a Regex result whose
\* value is as long as the longest value hit for the field, is the value of
\* the earliest hit of that length, and whose page_number is the page of
\* the window of that hit.
C18_LongestThenEarliest ==
    mrg.returned =>
        \A key \in SUPPORTED_KEYS :
            HitsOf(key) # {} =>
                \E i \in HitsOf(key) :
                    /\ \A j \in HitsOf(key) :
                          /\ Len(mrg.hits[j].val) <= Len(mrg.hits[i].val)
                          /\ Len(mrg.hits[j].val) = Len(mrg.hits[i].val)
                                => i <= j
                    /\ mrg.merged[key].source = "Regex"
                    /\ mrg.merged[key].value = mrg.hits[i].val
                    /\ mrg.merged[key].page_number = mrg.hits[i].page_num

\* A short value on page 1, then two longer ones of one length, the first
\* on page 1 and the other on page 2: the first of the longer ones won.
C18_Witness ==
    /\ mrg.returned
    /\ \E i, j, k \in HitsOf("start_date") :
          /\ i < j /\ j < k
          /\ Len(mrg.hits[i].val) < Len(mrg.hits[j].val)
          /\ Len(mrg.hits[j].val) = Len(mrg.hits[k].val)
          /\ mrg.hits[j].page_num # mrg.hits[k].page_num
          /\ mrg.merged["start_date"].value = mrg.hits[j].val
          /\ mrg.merged["start_date"].page_number = mrg.hits[j].page_num

\* The places in the configured list of the regexes that compile and match
\* somewhere in the window.
MatchingPatterns ==
    {k \in 1..Len(ext.config.patterns) :
        /\ ext.config.patterns[k].valid
        /\ SearchFrom(ext.config.patterns[k], ext.text, 0) # 0 - 1}

\* C19: for a field that is not find_all, a window in which a regex of the
\* list matches yields a hit, and the hit is the one the first matching
\* regex yields when it is the only regex of the list.
C19_FirstMatchDecides ==
    (ext.returned /\ MatchingPatterns # {}) =>
        LET k == CHOOSE m \in MatchingPatterns :
                     \A n \in MatchingPatterns : m <= n
            alone == PatternConfig(<<ext.config.patterns[k]>>, NotFound, FALSE)
        IN /\ ext.hits # RaisedExtraction
           /\ ext.hits.start_date # None
           /\ ext.hits.start_date = ApplyPatternConfig(ext.text, alone)

\* A text with its whitespace runs collapsed and its ends stripped.
Flat(text) == Strip(CollapseWs(text))

\* The heading scopes of a page: from its first line or from a heading line
\* up to the line before the next heading line.
ScopesOf(text) ==
    LET lines == SplitLines(text)
        starts == {i \in 1..Len(lines) : i = 1 \/ IsHeading(lines[i])}
        EndOf(s) == IF \E t \in starts : t > s
                    THEN (CHOOSE t \in starts :
                             t > s /\ \A u \in starts : u > s => t <= u) - 1
                    ELSE Len(lines)
    IN {Concat(SubSeq(lines, s, EndOf(s))) : s \in starts}

RECURSIVE PlacedInOrder(_, _)
\* The texts occur in the text one after the other without overlapping.
PlacedInOrder(texts, hay) ==
    IF texts = <<>> THEN TRUE
    ELSE LET at == Find(hay, Flat(texts[1])) IN
         /\ at # 0 - 1
         /\ PlacedInOrder(Tail(texts), From(hay, at + Len(Flat(texts[1]))))

\* The texts of the windows of the page, in the order of the windows.
WindowsOfPage(page_number) ==
    LET OfPage(w) == w.page_number = page_number
        ws == SelectSeq(win.windows, OfPage)
    IN [i \in 1..Len(ws) |-> ws[i].text]

\* C20: every window carries the number of a page and text of one heading
\* scope of that page only, the windows come with their pages ascending, and
\* the windows of a page follow one another in the text of the page.
C20_OnePageOneScope ==
    win.returned =>
        /\ \A i \in 1..Len(win.windows) :
              \E p \in 1..Len(win.pages) :
                  /\ win.windows[i].page_number = win.pages[p].page_number
                  /\ \E scope \in ScopesOf(win.pages[p].text) :
                        Contains(Flat(scope), Flat(win.windows[i].text))
        /\ \A i, j \in 1..Len(win.windows) :
              i < j => win.windows[i].page_number <= win.windows[j].page_number
        /\ \A p \in 1..Len(win.pages) :
              PlacedInOrder(WindowsOfPage(win.pages[p].page_number),
                            Flat(win.pages[p].text))

\* The first page ended under a heading and yielded a window with it, the
\* second page began without a heading and has a heading further down: it
\* yielded a window for each of its two scopes, the first without heading.
C20_Witness ==
    /\ win.returned
    /\ Len(WindowsOfPage(1)) >= 1
    /\ IsHeading(WindowsOfPage(1)[Len(WindowsOfPage(1))])
    /\ Len(WindowsOfPage(2)) = 2
    /\ WindowsOfPage(2)[1] = <<"b",".">>
    /\ WindowsOfPage(2)[2] = <<"2"," ","B","\n","\n","b","b","."," ","b",".">>

\* The record a document gets when its extraction runs alone.
RecordAlone(d) ==
    WithPeak(ExtractFromPdf(d, SharedPatterns), TracedBlocks(d))

\* C15: each of two extractions that run on the shared extractor returns
\* the record its document gets when extracted alone, analysis and
\* performance_metrics, however the two interleave.
C15_SameAsAlone ==
    \A t \in Workers :
        threads[t].pc = "done" =>
            threads[t].result = RecordAlone(threads[t].doc)

\* Whatever the interleaving, the record differs from the one of the
\* document alone in nothing but performance_metrics.
AnalysisSameAsAlone ==
    \A t \in Workers :
        threads[t].pc = "done" =>
            \A k \in DOMAIN RecordAlone(threads[t].doc)
                        \ {"performance_metrics"} :
                threads[t].result[k] = RecordAlone(threads[t].doc)[k]

RECURSIVE Consumed(_, _, _)
\* The windows take the sentences in order, each once: the first window is
\* either a run of leading sentences joined by one space and no longer than
\* max_chars_dense, or the first max_chars_dense characters of a first
\* sentence that is longer than that, and the other windows take the
\* sentences that are left.
Consumed(ws, sentences, max_chars_dense) ==
    IF ws = <<>> THEN sentences = <<>>
    ELSE \E k \in 1..Len(sentences) :
           /\ \/ /\ Head(ws).text = JoinWith(<<" ">>, SubSeq(sentences, 1, k))
                 /\ Len(Head(ws).text) <= max_chars_dense
                 /\ \A i \in 1..k : Len(sentences[i]) <= max_chars_dense
              \/ /\ k = 1
                 /\ Len(sentences[1]) > max_chars_dense
                 /\ Head(ws).text = Slice(sentences[1], 0, max_chars_dense)
           /\ Consumed(Tail(ws), SubSeq(sentences, k + 1, Len(sentences)),
                       max_chars_dense)

\* C21: the sentence loop ends for every list of sentences and every
\* max_chars_dense from 0 on, and when it has ended the windows hold every
\* sentence once and in order: whole inside one group no longer than
\* max_chars_dense, or, if the sentence alone is longer, as its first
\* max_chars_dense characters.
C21_LoopEndsWithEverySentence ==
    /\ <>(pack.at = "returned")
    /\ [](pack.at = "returned"
            => /\ pack.idx = Len(pack.sentences)
               /\ Consumed(pack.windows, pack.sentences, pack.max_chars_dense))

\* The loop has ended after a group of two sentences and the hard slice of
\* a third that is longer than max_chars_dense.
C21_Witness ==
    /\ pack.at = "returned"
    /\ Len(pack.sentences) = 3
    /\ Len(pack.sentences[3]) > pack.max_chars_dense
    /\ Len(pack.windows) = 2
    /\ pack.windows[1] =
          [text |-> pack.sentences[1] \o <<" ">> \o pack.sentences[2],
           kind |-> "group"]
    /\ pack.windows[2] =
          [text |-> SubSeq(pack.sentences[3], 1, pack.max_chars_dense),
           kind |-> "slice"]

\* The loop adds the windows that PackSentences gives.
PackerIsPackSentences ==
    pack.at = "returned"
        => pack.windows = PackSentences(pack.sentences, 1, <<>>,
                                        pack.max_chars_dense)

ProcessMarkerWinsOrIsDropped ==
    proc.returned /\ proc.marker.page # NoPage =>
        proc.page_number = (IF proc.answer.empty THEN NoPage
                            ELSE proc.marker.page)

\* The pages whose normalized text holds the normalized part.
PagesHolding(pages, part) ==
    {i \in 1..Len(pages) :
        Contains(NormalizeForMatching(pages[i].text), part)}

\* The n leading tokens of the normalized value, joined by one space.
LeadingTokens(normalized_value, n) ==
    JoinWith(<<" ">>, SubSeq(SplitWs(normalized_value), 1, n))

\* The numbers of leading tokens, 3 to 6, that some page holds.
PrefixesHeld(pages, normalized_value) ==
    {n \in 3..6 : /\ n <= Len(SplitWs(normalized_value))
                  /\ PagesHolding(pages,
                                  LeadingTokens(normalized_value, n)) # {}}

\* The page number of the first page among the pages numbered is.
FirstOf(pages, is) ==
    pages[CHOOSE i \in is : \A j \in is : i <= j].page_number

\* C23: the search of the pages returns the first page, in the order of the
\* document, whose normalized text holds the whole normalized value; only
\* if no page does, the first page that holds the longest run of 6 down to
\* 3 leading tokens of the value which any page holds, never a run of fewer
\* than 3; and None when neither is found, or when the value is empty or
\* has no word character to look for.
C23_WholeThenPrefixes ==
    finder.returned =>
        LET nv == IF Truthy(finder.value)
                  THEN NormalizeForMatching(finder.value) ELSE <<>>
            whole == PagesHolding(finder.pages, nv)
            held == PrefixesHeld(finder.pages, nv)
        IN finder.page_number =
             IF nv = <<>> THEN NoPage
             ELSE IF whole # {} THEN FirstOf(finder.pages, whole)
             ELSE IF held # {}
                  THEN FirstOf(finder.pages,
                          PagesHolding(finder.pages,
                              LeadingTokens(nv,
                                  CHOOSE n \in held : \A m \in held : n >= m)))
             ELSE NoPage

\* No page holds the whole value; the second page holds its six leading
\* tokens and is returned although the first page holds three of them.
C23_Witness ==
    /\ finder.returned
    /\ finder.value = <<"o","n","e"," ","t","w","o"," ","t","h","r","e","e"," ","f","o","u","r"," ","f","i","v","e"," ","s","i","x"," ","e","i","g","h","t">>
    /\ Len(finder.pages) = 2
    /\ PagesHolding(finder.pages, <<"o","n","e"," ","t","w","o"," ","t","h","r","e","e">>) = {1, 2}
    /\ PagesHolding(finder.pages, NormalizeForMatching(finder.value)) = {}
    /\ finder.page_number = 2

\* A value of two words that no page holds whole has no page, although a
\* page holds its first word; nor has a value without a word.
FinderNeverFewerThanThree ==
    finder.returned
      /\ (~Truthy(finder.value)
          \/ Len(SplitWs(NormalizeForMatching(finder.value))) < 3)
      /\ (Truthy(finder.value) =>
            PagesHolding(finder.pages,
                         NormalizeForMatching(finder.value)) = {}
            \/ NormalizeForMatching(finder.value) = <<>>)
      => finder.page_number = NoPage

\* The dict has performance_metrics with both measurements.
Measured(dict) ==
    /\ "performance_metrics" \in DOMAIN dict
    /\ DOMAIN dict.performance_metrics =
          {"execution_time_seconds", "peak_memory_usage_mb"}

\* C24: whatever the wrapped call does, the wrapper returns the call's dict
\* with performance_metrics holding execution_time_seconds and
\* peak_memory_usage_mb, on the success path and on every error path; the
\* wrapper raises nothing of its own and when the call ends with an
\* exception, that exception is the one that leaves the wrapper.
C24_MeasuredOnEveryPath ==
    /\ prof.pc = "done" =>
          /\ Measured(prof.result)
          /\ \A k \in DOMAIN prof.result \ {"performance_metrics"} :
                prof.result[k] = ExtractFromPdf(prof.doc, prof.patterns)[k]
    /\ prof.pc = "raised" => prof.exception = prof.ending

\* Every dict the wrapper returns is the call's dict with both measurements
\* added: the record of an analysis and each of the error shapes.
ProfilerMeasuresEveryReturn ==
    prof.pc = "done" =>
        /\ prof.ending = "returns"
        /\ prof.result = WithMetrics(ExtractFromPdf(prof.doc, prof.patterns))
        /\ Measured(prof.result)

\* The wrapper returns whenever the call returns.
ProfilerRaisesOnlyAfterRaise ==
    prof.pc = "raised" => prof.ending # "returns"

\* The heading line numbered i is followed by a line that is not blank
\* before the next heading line and the end of the page.
HasBody(lines, i) ==
    \E j \in (i + 1)..Len(lines) :
        /\ Strip(lines[j]) # <<>>
        /\ \A k \in (i + 1)..j : ~IsHeading(lines[k])

RECURSIVE HeadingsWithBody(_, _)
\* The stripped heading lines from line i on that have a body, in order.
HeadingsWithBody(lines, i) ==
    IF i > Len(lines) THEN <<>>
    ELSE (IF IsHeading(lines[i]) /\ HasBody(lines, i)
          THEN <<Strip(lines[i])>> ELSE <<>>)
         \o HeadingsWithBody(lines, i + 1)

\* The first line of a window.
FirstLineOf(text) ==
    IF Contains(text, <<"\n">>) THEN SubSeq(text, 1, Find(text, <<"\n">>))
    ELSE text

RECURSIVE HeadingsEmitted(_)
\* The headings the windows hold, in order: a window of its own, or the
\* first line of a window that joins heading and paragraph.
HeadingsEmitted(ws) ==
    IF ws = <<>> THEN <<>>
    ELSE (IF Head(ws).kind = "heading" THEN <<Head(ws).text>>
          ELSE IF Head(ws).kind = "chunk" /\ IsHeading(FirstLineOf(Head(ws).text))
               THEN <<FirstLineOf(Head(ws).text)>>
          ELSE <<>>)
         \o HeadingsEmitted(Tail(ws))

\* C25: the headings that reach the windows are the heading lines that a
\* line which is not blank follows before the next heading line and the end
\* of the page, each once and in order: joined to the paragraph in one
\* window, or in a window of its own that the windows of the paragraph's
\* sentences follow. A heading line followed at once by a heading line or
\* by the end of the page is in no window.
C25_HeadingOnlyWithBody ==
    seg.returned =>
        /\ HeadingsEmitted(seg.windows)
             = HeadingsWithBody(SplitLines(seg.text), 1)
        /\ \A i \in 1..Len(seg.windows) :
              /\ seg.windows[i].kind = "heading" =>
                    /\ i < Len(seg.windows)
                    /\ seg.windows[i + 1].kind \in {"group", "slice"}
              /\ (seg.windows[i].kind = "chunk"
                    /\ IsHeading(FirstLineOf(seg.windows[i].text))) =>
                    Len(seg.windows[i].text)
                        > Len(FirstLineOf(seg.windows[i].text)) + 2

\* A page of a heading without body, a heading with a body too long for
\* one window, and a last heading without body: the one window of a
\* heading is the second heading's.
C25_Witness ==
    /\ seg.returned
    /\ seg.text = <<"1"," ","A","\n","S","e","c","t","i","o","n"," ","B","b","\n","a","."," ","b","b",".","\n","1"," ","A","\n">>
    /\ seg.cfg.max_chars_sparse = 8
    /\ seg.windows = << [text |-> <<"S","e","c","t","i","o","n"," ","B","b">>, kind |-> "heading"],
                        [text |-> <<"a",".">>, kind |-> "group"],
                        [text |-> <<"b","b",".">>, kind |-> "group"] >>
====
